---------------------------- MODULE Spec2Model ----------------------------
(***************************************************************************)
(* Realtime voice client: the voice-activity-gated recorder                *)
(* (AutomaticAudioRecorder), the generation-tagged playback engine         *)
(* (AutomaticAudioPlayer), the barge-in coordinator and the session state  *)
(* driven by inbound protocol events.                                      *)
(***************************************************************************)
EXTENDS Integers, Sequences, FiniteSets, TLC

(***************************************************************************)
(* Bounds of the model.                                                    *)
(***************************************************************************)
\* capture frames fed to the recorder in the free-input specification
MaxFrames == 11
\* the three phases of a silence / loud / silence capture scenario
ScnMaxBefore == 6
ScnMaxLoud == 41
ScnMaxAfter == 26
\* playback workers ever started (generations issued)
MaxGen == 3
\* audio chunks submitted through add_audio
MaxChunks == 2
\* stop() calls made by the generic users of the engine
MaxStops == 1
\* calls the generic users of the engine make in all
MaxCalls == 4
\* stop_current_audio() calls made by the generic users of the engine
MaxSilences == 1
\* samples in the playback buffer a run of device callbacks starts from
MaxBuffered == 5
\* device callbacks of such a run
MaxBlocks == 3
\* send_event calls made by concurrent senders
MaxSends == 3
\* fields a caller of create_response supplies at most
MaxSupplied == 3
\* create_response calls the application makes
MaxCreates == 2
\* calls made on the engine whose workers are followed to their exit
MaxWorkerCalls == 3
\* utterances whose recording-finished callback is followed
MaxUtterances == 2
\* start, force_restart, add_audio and stop calls made while the device callback is
\* followed through its wait for the lock
MaxStopCalls == 3
\* inputs a session receives in all: responses begun, audio deltas, speech
\* onsets and the loss of the connection
MaxEvents == 4
\* samples a decoded chunk holds, samples the device asks for per callback,
\* and the refill mark of the worker (0.5 s of audio), scaled down
ChunkSamples == 2
BlockSize == 3
LowWater == 4

(***************************************************************************)
(* Recorder configuration (AutomaticAudioRecorder.__init__).               *)
(* Volumes are in thousandths of full scale, durations in milliseconds.   *)
(***************************************************************************)
threshold == 20
sample_rate == 16000
frame_size == 1024
DefaultSilenceMs == 1000
DefaultMinSpeechMs == 500
DefaultPreBufferMs == 500

\* int(duration * (sample_rate / frame_size)) for a duration in milliseconds
FramesFor(ms) == (ms * sample_rate) \div (frame_size * 1000)

\* durations of the short configurations explored with free input
ShortDurations == {128, 200}

\* RMS levels fed by the capture device: below, equal to and above the threshold
Volumes == {threshold - 1, threshold, threshold + 1}

VARIABLES
  \* ---- AutomaticAudioRecorder fields
  silence_threshold, min_speech_frames, pre_buffer_size,
  is_recording, recorded_frames, speech_detected,
  silence_frames, speech_frames, speech_start_time, pre_buffer,
  \* ---- the capture device and the callbacks the recorder launched
  nCaptured,        \* frames delivered so far; frame k is the k-th frame
  detectedCalls,    \* speech_detected_callback threads started
  finishedCalls,    \* recording_finished_callback threads started
  lastOutcome,      \* what the last audio_callback did: "none", "detected",
                    \* "finished", "discarded"
  anyLoud,          \* some frame had RMS > threshold
  fedEqual,         \* some frame had RMS = threshold
  silentRun,        \* consecutive frames with RMS <= threshold, up to now
  scn,              \* scenario feed: <<phase, before, loud, after>>
  \* ---- AutomaticAudioPlayer fields
  audio_queue,      \* queue.Queue of decoded chunks
  audio_buffer,     \* samples waiting for the device (None is the empty buffer)
  is_playing, silence_output,
  thread_id, current_thread_id,   \* 0 is None
  playback_thread,  \* generation of the Thread object held, 0 is None
  stream,           \* generation whose OutputStream self.stream holds, 0 is None
  stream_lock,      \* "free", or the thread or worker holding it
  \* ---- threads
  streamsOpen,      \* OutputStreams started and not yet closed
  wpc,              \* playback workers: position of each generation's worker
  wheld,            \* the chunk a worker took from the queue
  tpc,              \* calling threads: position
  tret,             \* calling threads: where the current engine call returns to
  targ,             \* calling threads: the decoded chunk add_audio is enqueuing
  \* ---- observations
  nextChunk,        \* chunks submitted so far
  submitInfo,       \* per chunk: force_restart calls made when it was submitted
  restartsBegun,    \* force_restart calls made
  restartsReturned, \* force_restart calls returned
  spawnOps,         \* force_restart and start calls made
  stopCalls,
  joinTimedOut,     \* a join(1.0) gave up on a live worker
  staleWrite,       \* a stale worker has written audio_buffer
  played,           \* deliveries to the device: <<chunk, restartsReturned
                    \* then, whether a finished barge-in was to drop it>>
  \* ---- session (SessionState, connection, remote service)
  state,            \* the SessionState record
  connected,        \* the client's connected flag
  transportUp,      \* the socket is open
  current_event_id,
  outbox,           \* events transmitted: <<type, argument, <<"evt", n>> >>
  snap,             \* the client_state snapshot a coordinator was handed,
                    \* while it still reads it
  srvResp,          \* the response the remote service is streaming, 0 is none
  srvStarted,       \* responses the remote service has started
  seg,              \* the recorder as the session sees it: "idle" or "armed"
  segments,         \* speech segments begun
  restartsFor,      \* per response: force_restart calls its deltas triggered
  deltasFor,        \* per response: audio deltas dispatched
  barge,            \* the latest barge-in that acted: the response of its
                    \* snapshot, the outbox length then, whether its
                    \* cancel was transmitted, the chunks the engine
                    \* held then, and those of the barge-ins returned;
                    \* whether the engine held audio at the last onset;
                    \* whether the audio delta last received was of a
                    \* response cancelled before; the segment whose onset
                    \* started it; whether it had returned when the last
                    \* recording-finished callback was started
  \* ---- transcript persistence
  partialFile,      \* per response: the text of its partial file, <<>> is no file
  finalFile,        \* per response: the text of its final file, <<>> is no file
  finalWrites,      \* per response: final writes performed
  seen,             \* per response: its transcript deltas, in arrival order
  logged,           \* inbound events handled by a handler that only logs
  \* ---- silencing of the engine
  resetPending,     \* reset_flag threads of stop_current_audio still asleep
  silenceCalls,     \* stop_current_audio calls made
  refused,          \* chunks whose add_audio found the silence flag set
  \* ---- the device, observed block by block
  outdata,          \* the block the last callback handed to the device
  blocks,           \* callbacks observed
  heard,            \* the samples handed to the device, zeros left out
  fed,              \* the samples the buffer was given
  \* ---- send_event, statement by statement
  sreg,             \* per sender: the value of current_event_id it last read
  sendCalls,        \* send_event calls made by the concurrent senders
  \* ---- create_response
  kwargs,           \* the fields the caller of create_response supplies
  createCalls,      \* create_response calls the application has made
  \* ---- run_conversation and disconnect
  is_listening,     \* the recorder's is_listening flag
  \* ---- the buffer-ready signal of the playback engine
  buffer_event,     \* the flag of the engine's buffer_event
  \* ---- the recording-finished callbacks of the recorder
  upc,              \* per utterance: position of its callback thread
  uaudio,           \* per utterance: what get_base64_audio returned to it
  uframes,          \* per utterance: the frames recorded when it finished
  udone,            \* response-done events handled
  \* ---- the device callback, entered and not yet returned
  inCallback        \* streams whose _callback is waiting for the lock

recVars == <<silence_threshold, min_speech_frames, pre_buffer_size,
             is_recording, recorded_frames, speech_detected,
             silence_frames, speech_frames, speech_start_time, pre_buffer,
             nCaptured, detectedCalls, finishedCalls, lastOutcome,
             anyLoud, fedEqual, silentRun, scn>>

playerVars == <<audio_queue, audio_buffer, is_playing, silence_output,
                thread_id, current_thread_id, playback_thread, stream,
                stream_lock, streamsOpen, wpc, wheld, tpc, tret, targ,
                nextChunk, submitInfo, restartsBegun, restartsReturned,
                spawnOps, stopCalls, joinTimedOut, staleWrite, played>>

silVars == <<resetPending, silenceCalls>>

cbVars == <<outdata, blocks, heard, fed>>

sendVars == <<sreg, sendCalls>>

createVars == <<kwargs, createCalls>>

closeVars == <<is_listening>>

evVars == <<buffer_event>>

uttVars == <<upc, uaudio, uframes, udone>>

devVars == <<inCallback>>

auxVars == <<silVars, refused, cbVars, sendVars, createVars, closeVars,
            evVars, uttVars, devVars>>

textVars == <<partialFile, finalFile, finalWrites, seen, logged>>

sessVars == <<state, connected, transportUp, current_event_id, outbox, snap,
              srvResp, srvStarted, seg, segments, restartsFor,
              deltasFor, barge, textVars>>

vars == <<recVars, playerVars, sessVars, auxVars>>

(***************************************************************************)
(* Recorder                                                                *)
(***************************************************************************)
\* the inclusive range lo..hi as a sequence
Range(lo, hi) == [i \in 1..(IF hi >= lo THEN hi - lo + 1 ELSE 0) |-> lo + i - 1]

\* a ring that refuses the new frame when it is full
DequeAppend_KeepOldest(dq, f, size) ==
  IF Len(dq) < size THEN Append(dq, f) ELSE dq

\* collections.deque(maxlen=size).append(f)
DequeAppend(dq, f, size) ==
  IF size = 0 THEN <<>>
  ELSE IF Len(dq) < size THEN Append(dq, f)
  ELSE Append(Tail(dq), f)

AboveThreshold_Geq(vol) == vol >= threshold

\* volume_norm > self.threshold
AboveThreshold(vol) == vol > threshold

\* a recorder that takes every frame above the threshold for an onset
SpeechOnset_Every(detected) == TRUE

\* not self.speech_detected, on a frame above the threshold
SpeechOnset(detected) == ~detected

\* a recorder that ends the segment when the silence reaches the threshold
SilenceExceeded_Geq(n) == n >= silence_threshold

\* self.silence_frames > self.silence_threshold
SilenceExceeded(n) == n > silence_threshold

ValidSpeech_Strict(n) == n > min_speech_frames

ValidSpeech_Lenient(n) == n + 1 >= min_speech_frames

\* self.speech_frames >= self.min_speech_frames
ValidSpeech(n) == n >= min_speech_frames

\* the frame appended at the end of audio_callback while recording
SaveFrame(rec, frames, f) == IF rec THEN Append(frames, f) ELSE frames

\* start_recording() followed by the copy of the pre-buffer
SeedRecording(pb) == pb

\* no keyword argument
NoKwargs == [k \in {} |-> ""]

RecInit(sil, minsp, pre) ==
  /\ silence_threshold = FramesFor(sil)
  /\ min_speech_frames = FramesFor(minsp)
  /\ pre_buffer_size = FramesFor(pre)
  /\ is_recording = FALSE
  /\ recorded_frames = <<>>
  /\ speech_detected = FALSE
  /\ silence_frames = 0
  /\ speech_frames = 0
  /\ speech_start_time = 0
  /\ pre_buffer = <<>>
  /\ nCaptured = 0
  /\ detectedCalls = 0
  /\ finishedCalls = 0
  /\ lastOutcome = "none"
  /\ anyLoud = FALSE
  /\ fedEqual = FALSE
  /\ silentRun = 0

\* audio_callback(indata, ...) for the next frame, whose RMS is vol
audio_callback(vol) ==
  LET f == nCaptured + 1
      pb == DequeAppend(pre_buffer, f, pre_buffer_size)
  IN
  /\ nCaptured' = f
  /\ pre_buffer' = pb
  /\ anyLoud' = (anyLoud \/ vol > threshold)
  /\ fedEqual' = (fedEqual \/ vol = threshold)
  /\ silentRun' = (IF vol > threshold THEN 0 ELSE silentRun + 1)
  /\ UNCHANGED <<silence_threshold, min_speech_frames, pre_buffer_size>>
  /\ IF AboveThreshold(vol)
     THEN /\ silence_frames' = 0
          /\ finishedCalls' = finishedCalls
          /\ IF SpeechOnset(speech_detected)
             THEN /\ speech_detected' = TRUE
                  /\ speech_start_time' = f
                  /\ speech_frames' = 1
                  /\ detectedCalls' = detectedCalls + 1
                  /\ lastOutcome' = "detected"
                  /\ is_recording' = TRUE
                  /\ recorded_frames' =
                       SaveFrame(TRUE,
                                 IF is_recording THEN recorded_frames
                                 ELSE SeedRecording(pb), f)
             ELSE /\ speech_frames' = speech_frames + 1
                  /\ lastOutcome' = "none"
                  /\ recorded_frames' = SaveFrame(is_recording, recorded_frames, f)
                  /\ UNCHANGED <<speech_detected, speech_start_time,
                                 detectedCalls, is_recording>>
     ELSE /\ UNCHANGED <<speech_start_time, detectedCalls>>
          /\ IF speech_detected
             THEN /\ silence_frames' = silence_frames + 1
                  /\ IF SilenceExceeded(silence_frames + 1)
                     THEN /\ speech_detected' = FALSE
                          /\ speech_frames' = 0
                          /\ IF ValidSpeech(speech_frames)
                             THEN \* stop_recording(), then the callback thread
                                  /\ is_recording' = FALSE
                                  /\ recorded_frames' = recorded_frames
                                  /\ finishedCalls' =
                                       IF is_recording THEN finishedCalls + 1
                                       ELSE finishedCalls
                                  /\ lastOutcome' =
                                       IF is_recording THEN "finished" ELSE "none"
                             ELSE \* clear_recording()
                                  /\ is_recording' = FALSE
                                  /\ recorded_frames' = <<>>
                                  /\ finishedCalls' = finishedCalls
                                  /\ lastOutcome' = "discarded"
                     ELSE /\ recorded_frames' =
                               SaveFrame(is_recording, recorded_frames, f)
                          /\ lastOutcome' = "none"
                          /\ UNCHANGED <<speech_detected, speech_frames,
                                         is_recording, finishedCalls>>
             ELSE /\ recorded_frames' = SaveFrame(is_recording, recorded_frames, f)
                  /\ lastOutcome' = "none"
                  /\ UNCHANGED <<silence_frames, speech_detected, speech_frames,
                                 is_recording, finishedCalls>>

\* the capture device delivers one frame of any level
CaptureFrame ==
  /\ scn[1] = 0
  /\ nCaptured < MaxFrames
  /\ \E vol \in Volumes : audio_callback(vol)
  /\ UNCHANGED <<scn, playerVars, sessVars>>

\* the capture device delivers the next frame of a silence / loud / silence feed
ScenarioFrame ==
  /\ scn[1] > 0
  /\ \E p \in {scn[1], scn[1] + 1} :
       /\ p <= 3
       /\ scn[p + 1] < <<ScnMaxBefore, ScnMaxLoud, ScnMaxAfter>>[p]
       /\ p = 3 => scn[3] > 0
       /\ scn' = [scn EXCEPT ![1] = p, ![p + 1] = @ + 1]
       /\ \E vol \in (IF p = 2 THEN {threshold + 1}
                      ELSE {threshold - 1, threshold}) : audio_callback(vol)
  /\ UNCHANGED <<playerVars, sessVars>>

(***************************************************************************)
(* Playback engine (AutomaticAudioPlayer)                                  *)
(***************************************************************************)
\* threads that call the engine: two generic users of its interface
ApiThreads == {"api1", "api2"}
\* and the threads of a session: the connecting caller, the receive loop, the
\* thread of the speech-detected callback and that of recording-finished
SessThreads == {"main", "recv", "barge", "proc"}
\* the threads of a session that send events: the socket thread, the
\* barge-in thread and the utterance-processing thread
Senders == {"recv", "barge", "proc"}

Threads == ApiThreads \cup SessThreads

Gens == 1..MaxGen

\* _decode_audio: the samples of chunk c, each sample tagged with its chunk
Decode(c) == [i \in 1..ChunkSamples |-> c]

\* Thread.is_alive() of generation g's worker
Alive(g) == g # 0 /\ wpc[g] \notin {"none", "dead"}

\* self.stream is not None and self.stream.active
StreamActive == stream # 0 /\ stream \in streamsOpen

\* thread_id != self.current_thread_id
Stale(g) == g # current_thread_id

\* the utterances whose callback thread is followed
Utterances == 1..MaxUtterances

\* get_base64_audio on an empty recording: None
NoAudio == [format |-> "none", frames |-> <<>>]

\* get_base64_audio, lines 229-252: None without frames, else the frames
\* concatenated in order as 16-bit PCM in a WAV container, base64 encoded
get_base64_audio(frames) ==
  IF frames = <<>> THEN NoAudio
  ELSE [format |-> "wav16", frames |-> frames]

\* no recording-finished callback has been started
UttInit ==
  /\ upc = [k \in Utterances |-> "none"]
  /\ uaudio = [k \in Utterances |-> NoAudio]
  /\ uframes = [k \in Utterances |-> <<>>]
  /\ udone = 0

PlayerInit ==
  /\ audio_queue = <<>>
  /\ audio_buffer = <<>>
  /\ is_playing = FALSE
  /\ silence_output = FALSE
  /\ thread_id = 0
  /\ current_thread_id = 0
  /\ playback_thread = 0
  /\ stream = 0
  /\ stream_lock = "free"
  /\ streamsOpen = {}
  /\ wpc = [g \in Gens |-> "none"]
  /\ wheld = [g \in Gens |-> <<>>]
  /\ tpc = [t \in Threads |-> "idle"]
  /\ tret = [t \in Threads |-> "idle"]
  /\ targ = [t \in Threads |-> <<>>]
  /\ nextChunk = 0
  /\ submitInfo = [c \in 1..MaxChunks |-> 0]
  /\ restartsBegun = 0
  /\ restartsReturned = 0
  /\ spawnOps = 0
  /\ stopCalls = 0
  /\ joinTimedOut = FALSE
  /\ staleWrite = FALSE
  /\ played = {}
  /\ resetPending = 0
  /\ silenceCalls = 0
  /\ refused = {}
  /\ outdata = <<>>
  /\ blocks = 0
  /\ heard = <<>>
  /\ fed = <<>>
  /\ sreg = [t \in Senders |-> 0]
  /\ sendCalls = 0
  /\ createCalls = 0
  /\ is_listening = FALSE
  /\ buffer_event = FALSE
  /\ UttInit
  /\ inCallback = {}

\* thread t returns from the engine call it is in
Return(t) == tpc' = [tpc EXCEPT ![t] = tret[t]]

\* thread t, at label from, calls an engine method whose first label is entry
\* and continues at label to when the method returns
Call(t, from, entry, to) ==
  /\ tpc[t] = from
  /\ tpc' = [tpc EXCEPT ![t] = entry]
  /\ tret' = [tret EXCEPT ![t] = to]

\* force_restart, lines 41-59: take the lock, mark stopped, close the stream,
\* clear the queue, reset the buffer
ForceRestartClear(t) ==
  /\ tpc[t] = "fr_a"
  /\ stream_lock = "free"
  /\ stream_lock' = t
  /\ is_playing' = FALSE
  /\ IF StreamActive
     THEN streamsOpen' = streamsOpen \ {stream} /\ stream' = 0
     ELSE UNCHANGED <<streamsOpen, stream>>
  /\ audio_queue' = <<>>
  /\ audio_buffer' = <<>>
  /\ tpc' = [tpc EXCEPT ![t] = "fr_b"]
  /\ UNCHANGED <<silence_output, thread_id, current_thread_id, playback_thread,
                 wpc, wheld, tret, targ, nextChunk, submitInfo, restartsBegun,
                 restartsReturned, spawnOps, stopCalls, joinTimedOut,
                 staleWrite, played>>

\* a force_restart that starts the new worker without making its generation
\* the current one
ForceRestartSpawn_NoTag(t) ==
  /\ tpc[t] = "fr_b"
  /\ stream_lock = t
  /\ thread_id' = thread_id + 1
  /\ is_playing' = TRUE
  /\ silence_output' = FALSE
  /\ playback_thread' = thread_id + 1
  /\ wpc' = [wpc EXCEPT ![thread_id + 1] = "w_start"]
  /\ stream_lock' = "free"
  /\ restartsReturned' = restartsReturned + 1
  /\ Return(t)
  /\ UNCHANGED <<audio_queue, audio_buffer, stream, streamsOpen, wheld, tret,
                 targ, nextChunk, submitInfo, restartsBegun, spawnOps,
                 stopCalls, joinTimedOut, staleWrite, played,
                 current_thread_id>>

\* force_restart, lines 61-77: new generation, new worker, release the lock
ForceRestartSpawn(t) ==
  /\ tpc[t] = "fr_b"
  /\ stream_lock = t
  /\ thread_id' = thread_id + 1
  /\ is_playing' = TRUE
  /\ silence_output' = FALSE
  /\ current_thread_id' = thread_id + 1
  /\ playback_thread' = thread_id + 1
  /\ wpc' = [wpc EXCEPT ![thread_id + 1] = "w_start"]
  /\ stream_lock' = "free"
  /\ restartsReturned' = restartsReturned + 1
  /\ Return(t)
  /\ UNCHANGED <<audio_queue, audio_buffer, stream, streamsOpen, wheld, tret,
                 targ, nextChunk, submitInfo, restartsBegun, spawnOps,
                 stopCalls, joinTimedOut, staleWrite, played>>

\* a start() that launches its worker without making the new generation the
\* current one
Start_NoTag(t) ==
  /\ tpc[t] = "sa_1"
  /\ stream_lock = "free"
  /\ IF playback_thread = 0 \/ ~Alive(playback_thread)
     THEN /\ is_playing' = TRUE
          /\ silence_output' = FALSE
          /\ thread_id' = thread_id + 1
          /\ playback_thread' = thread_id + 1
          /\ wpc' = [wpc EXCEPT ![thread_id + 1] = "w_start"]
          /\ UNCHANGED current_thread_id
     ELSE UNCHANGED <<is_playing, silence_output, thread_id, current_thread_id,
                      playback_thread, wpc>>
  /\ Return(t)
  /\ UNCHANGED <<audio_queue, audio_buffer, stream, stream_lock, streamsOpen,
                 wheld, tret, targ, nextChunk, submitInfo, restartsBegun,
                 restartsReturned, spawnOps, stopCalls, joinTimedOut,
                 staleWrite, played>>

\* start(), lines 79-94
Start(t) ==
  /\ tpc[t] = "sa_1"
  /\ stream_lock = "free"
  /\ IF playback_thread = 0 \/ ~Alive(playback_thread)
     THEN /\ is_playing' = TRUE
          /\ silence_output' = FALSE
          /\ thread_id' = thread_id + 1
          /\ current_thread_id' = thread_id + 1
          /\ playback_thread' = thread_id + 1
          /\ wpc' = [wpc EXCEPT ![thread_id + 1] = "w_start"]
     ELSE UNCHANGED <<is_playing, silence_output, thread_id, current_thread_id,
                      playback_thread, wpc>>
  /\ Return(t)
  /\ UNCHANGED <<audio_queue, audio_buffer, stream, stream_lock, streamsOpen,
                 wheld, tret, targ, nextChunk, submitInfo, restartsBegun,
                 restartsReturned, spawnOps, stopCalls, joinTimedOut,
                 staleWrite, played>>

\* stop(), line 98
StopMark(t) ==
  /\ tpc[t] = "st_1"
  /\ is_playing' = FALSE
  /\ tpc' = [tpc EXCEPT ![t] = "st_2"]
  /\ UNCHANGED <<audio_queue, audio_buffer, silence_output, thread_id,
                 current_thread_id, playback_thread, stream, stream_lock,
                 streamsOpen, wpc, wheld, tret, targ, nextChunk, submitInfo,
                 restartsBegun, restartsReturned, spawnOps, stopCalls,
                 joinTimedOut, staleWrite, played>>

\* stop(), lines 101-109
StopCloseStream(t) ==
  /\ tpc[t] = "st_2"
  /\ stream_lock = "free"
  /\ IF StreamActive
     THEN streamsOpen' = streamsOpen \ {stream} /\ stream' = 0
     ELSE UNCHANGED <<streamsOpen, stream>>
  /\ tpc' = [tpc EXCEPT ![t] = "st_3"]
  /\ UNCHANGED <<audio_queue, audio_buffer, is_playing, silence_output,
                 thread_id, current_thread_id, playback_thread, stream_lock,
                 wpc, wheld, tret, targ, nextChunk, submitInfo, restartsBegun,
                 restartsReturned, spawnOps, stopCalls, joinTimedOut,
                 staleWrite, played>>

\* stop(), lines 111-117: join(1.0) returns when the worker has exited, or
\* gives up on a worker that is still alive
StopJoin(t) ==
  /\ tpc[t] = "st_3"
  /\ joinTimedOut' = (joinTimedOut \/ Alive(playback_thread))
  /\ Return(t)
  /\ UNCHANGED <<audio_queue, audio_buffer, is_playing, silence_output,
                 thread_id, current_thread_id, playback_thread, stream,
                 stream_lock, streamsOpen, wpc, wheld, tret, targ, nextChunk,
                 submitInfo, restartsBegun, restartsReturned, spawnOps,
                 stopCalls, staleWrite, played>>

\* an add_audio without the silence check of lines 152-154
AddAudioDecode_NoCheck(t) ==
  /\ tpc[t] = "aa_1"
  /\ tpc' = [tpc EXCEPT ![t] = "aa_2"]
  /\ targ' = [targ EXCEPT ![t] = Decode(targ[t][1])]
  /\ refused' = IF silence_output THEN refused \cup {targ[t][1]} ELSE refused
  /\ UNCHANGED <<audio_queue, audio_buffer, is_playing, silence_output,
                 thread_id, current_thread_id, playback_thread, stream,
                 stream_lock, streamsOpen, wpc, wheld, tret, nextChunk,
                 submitInfo, restartsBegun, restartsReturned, spawnOps,
                 stopCalls, joinTimedOut, staleWrite, played, silVars, cbVars,
                 sendVars, createVars, closeVars, evVars,
                 uttVars, devVars>>

\* add_audio, lines 152-160: the silence check and the decoding of the chunk
AddAudioDecode(t) ==
  /\ tpc[t] = "aa_1"
  /\ IF silence_output
     THEN /\ Return(t)
          /\ targ' = [targ EXCEPT ![t] = <<>>]
          /\ refused' = refused \cup {targ[t][1]}
     ELSE /\ tpc' = [tpc EXCEPT ![t] = "aa_2"]
          /\ targ' = [targ EXCEPT ![t] = Decode(targ[t][1])]
          /\ UNCHANGED refused
  /\ UNCHANGED <<audio_queue, audio_buffer, is_playing, silence_output,
                 thread_id, current_thread_id, playback_thread, stream,
                 stream_lock, streamsOpen, wpc, wheld, tret, nextChunk,
                 submitInfo, restartsBegun, restartsReturned, spawnOps,
                 stopCalls, joinTimedOut, staleWrite, played, silVars, cbVars,
                 sendVars, createVars, closeVars, evVars,
                 uttVars, devVars>>

\* add_audio, line 162: self.audio_queue.put(samples)
AddAudioPut(t) ==
  /\ tpc[t] = "aa_2"
  /\ audio_queue' = Append(audio_queue, targ[t])
  /\ targ' = [targ EXCEPT ![t] = <<>>]
  /\ Return(t)
  /\ UNCHANGED <<audio_buffer, is_playing, silence_output, thread_id,
                 current_thread_id, playback_thread, stream, stream_lock,
                 streamsOpen, wpc, wheld, tret, nextChunk, submitInfo,
                 restartsBegun, restartsReturned, spawnOps, stopCalls,
                 joinTimedOut, staleWrite, played>>

\* what the steps of stop_current_audio leave alone
silenceFrame == <<is_playing, thread_id, current_thread_id, playback_thread,
                  stream, stream_lock, streamsOpen, wpc, wheld, tret, targ,
                  nextChunk, submitInfo, restartsBegun, restartsReturned,
                  spawnOps, stopCalls, joinTimedOut, staleWrite, played,
                  silenceCalls, refused, cbVars, sendVars, createVars,
                  closeVars, evVars,
                 uttVars, devVars>>

\* stop_current_audio, line 132: self.silence_output = True
StopCurrentMark(t) ==
  /\ tpc[t] = "sc_1"
  /\ silence_output' = TRUE
  /\ tpc' = [tpc EXCEPT ![t] = "sc_2"]
  /\ UNCHANGED <<audio_queue, audio_buffer, resetPending, silenceFrame>>

\* stop_current_audio, line 135: self._clear_queue()
StopCurrentClear(t) ==
  /\ tpc[t] = "sc_2"
  /\ audio_queue' = <<>>
  /\ tpc' = [tpc EXCEPT ![t] = "sc_3"]
  /\ UNCHANGED <<audio_buffer, silence_output, resetPending, silenceFrame>>

\* stop_current_audio, lines 138-148: the buffer is emptied under the lock
\* and the thread that will reset the flag is started
StopCurrentBuffer(t) ==
  /\ tpc[t] = "sc_3"
  /\ stream_lock = "free"
  /\ audio_buffer' = <<>>
  /\ resetPending' = resetPending + 1
  /\ Return(t)
  /\ UNCHANGED <<audio_queue, silence_output, silenceFrame>>

\* reset_flag, lines 142-145: after its sleep the thread clears the flag
ResetFlag ==
  /\ resetPending > 0
  /\ silence_output' = FALSE
  /\ resetPending' = resetPending - 1
  /\ UNCHANGED <<audio_queue, audio_buffer, tpc, is_playing, thread_id,
                 current_thread_id, playback_thread, stream, stream_lock,
                 streamsOpen, wpc, wheld, tret, targ, nextChunk, submitInfo,
                 restartsBegun, restartsReturned, spawnOps, stopCalls,
                 joinTimedOut, staleWrite, played, silenceCalls>>

callerVars == <<tpc, tret, targ>>

countVars == <<nextChunk, submitInfo, restartsBegun, restartsReturned,
               spawnOps, stopCalls, joinTimedOut>>

Goto(g, label) == wpc' = [wpc EXCEPT ![g] = label]

\* _playback_worker, lines 234-237: the first generation check
WorkerStart(g) ==
  /\ wpc[g] = "w_start"
  /\ Goto(g, IF Stale(g) THEN "w_finally" ELSE "w_init")
  /\ UNCHANGED <<audio_queue, audio_buffer, is_playing, silence_output,
                 thread_id, current_thread_id, playback_thread, stream,
                 stream_lock, streamsOpen, wheld, callerVars, countVars,
                 staleWrite, played>>

\* the buffer reset of line 240, which a worker makes without the lock
ResetBuffer(g) == <<>>

\* _playback_worker, line 240
WorkerInitBuffer(g) ==
  /\ wpc[g] = "w_init"
  /\ audio_buffer' = ResetBuffer(g)
  /\ staleWrite' = (staleWrite \/ Stale(g))
  /\ Goto(g, "w_open")
  /\ UNCHANGED <<audio_queue, is_playing, silence_output, thread_id,
                 current_thread_id, playback_thread, stream, stream_lock,
                 streamsOpen, wheld, callerVars, countVars, played>>

\* a worker that opens the stream without the check of lines 245-247
WorkerOpenStream_NoCheck(g) ==
  /\ wpc[g] = "w_open"
  /\ stream_lock = "free"
  /\ stream' = g
  /\ streamsOpen' = streamsOpen \cup {g}
  /\ Goto(g, "w_loop")
  /\ UNCHANGED <<audio_queue, audio_buffer, is_playing, silence_output,
                 thread_id, current_thread_id, playback_thread, stream_lock,
                 wheld, callerVars, countVars, staleWrite, played>>

\* _playback_worker, lines 243-255: the second check and the output stream
WorkerOpenStream(g) ==
  /\ wpc[g] = "w_open"
  /\ stream_lock = "free"
  /\ IF Stale(g)
     THEN Goto(g, "w_finally") /\ UNCHANGED <<stream, streamsOpen>>
     ELSE /\ stream' = g
          /\ streamsOpen' = streamsOpen \cup {g}
          /\ Goto(g, "w_loop")
  /\ UNCHANGED <<audio_queue, audio_buffer, is_playing, silence_output,
                 thread_id, current_thread_id, playback_thread, stream_lock,
                 wheld, callerVars, countVars, staleWrite, played>>

\* a loop test that does not compare the generations
WorkerLoop_NoGen(g) ==
  /\ wpc[g] = "w_loop"
  /\ Goto(g, IF is_playing
             THEN (IF silence_output THEN "w_loop" ELSE "w_size")
             ELSE "w_finally")
  /\ UNCHANGED <<audio_queue, audio_buffer, is_playing, silence_output,
                 thread_id, current_thread_id, playback_thread, stream,
                 stream_lock, streamsOpen, wheld, callerVars, countVars,
                 staleWrite, played>>

\* _playback_worker, lines 259-268: the loop test
WorkerLoop(g) ==
  /\ wpc[g] = "w_loop"
  /\ Goto(g, IF is_playing /\ ~Stale(g)
             THEN (IF silence_output THEN "w_loop" ELSE "w_size")
             ELSE "w_finally")
  /\ UNCHANGED <<audio_queue, audio_buffer, is_playing, silence_output,
                 thread_id, current_thread_id, playback_thread, stream,
                 stream_lock, streamsOpen, wheld, callerVars, countVars,
                 staleWrite, played>>

\* _playback_worker, lines 271-275 and 298-300: the buffer level, read under
\* the lock; a full buffer sends the worker to buffer_event.wait(0.1)
WorkerSize(g) ==
  /\ wpc[g] = "w_size"
  /\ stream_lock = "free"
  /\ Goto(g, IF Len(audio_buffer) < LowWater THEN "w_get" ELSE "w_loop")
  /\ UNCHANGED <<audio_queue, audio_buffer, is_playing, silence_output,
                 thread_id, current_thread_id, playback_thread, stream,
                 stream_lock, streamsOpen, wheld, callerVars, countVars,
                 staleWrite, played>>

\* _playback_worker, line 279: audio_queue.get(timeout=0.1) returns a chunk
WorkerGet(g) ==
  /\ wpc[g] = "w_get"
  /\ audio_queue # <<>>
  /\ wheld' = [wheld EXCEPT ![g] = Head(audio_queue)]
  /\ audio_queue' = Tail(audio_queue)
  /\ Goto(g, "w_check")
  /\ UNCHANGED <<audio_buffer, is_playing, silence_output, thread_id,
                 current_thread_id, playback_thread, stream, stream_lock,
                 streamsOpen, callerVars, countVars, staleWrite, played>>

\* _playback_worker, lines 295-297: the get times out on an empty queue
WorkerGetEmpty(g) ==
  /\ wpc[g] = "w_get"
  /\ audio_queue = <<>>
  /\ Goto(g, "w_loop")
  /\ UNCHANGED <<audio_queue, audio_buffer, is_playing, silence_output,
                 thread_id, current_thread_id, playback_thread, stream,
                 stream_lock, streamsOpen, wheld, callerVars, countVars,
                 staleWrite, played>>

\* line 282: a worker drops the chunk it took when it finds itself silenced
\* or stale
SkipChunk(g) == silence_output \/ Stale(g)

\* _playback_worker, lines 281-283
WorkerCheck(g) ==
  /\ wpc[g] = "w_check"
  /\ IF SkipChunk(g)
     THEN Goto(g, "w_loop") /\ wheld' = [wheld EXCEPT ![g] = <<>>]
     ELSE Goto(g, "w_append") /\ UNCHANGED wheld
  /\ UNCHANGED <<audio_queue, audio_buffer, is_playing, silence_output,
                 thread_id, current_thread_id, playback_thread, stream,
                 stream_lock, streamsOpen, callerVars, countVars,
                 staleWrite, played>>

\* _playback_worker, lines 286-294: the append, under the lock
WorkerAppend(g) ==
  /\ wpc[g] = "w_append"
  /\ stream_lock = "free"
  /\ IF Len(wheld[g]) > 0
     THEN /\ audio_buffer' = audio_buffer \o wheld[g]
          /\ staleWrite' = (staleWrite \/ Stale(g))
     ELSE UNCHANGED <<audio_buffer, staleWrite>>
  /\ wheld' = [wheld EXCEPT ![g] = <<>>]
  /\ Goto(g, "w_loop")
  /\ UNCHANGED <<audio_queue, is_playing, silence_output, thread_id,
                 current_thread_id, playback_thread, stream, stream_lock,
                 streamsOpen, callerVars, countVars, played>>

\* _playback_worker, lines 304-317: the finally block, then the thread ends
WorkerFinally(g) ==
  /\ wpc[g] = "w_finally"
  /\ stream_lock = "free"
  /\ IF ~Stale(g) /\ StreamActive
     THEN streamsOpen' = streamsOpen \ {stream} /\ stream' = 0
     ELSE UNCHANGED <<streamsOpen, stream>>
  /\ Goto(g, "dead")
  /\ UNCHANGED <<audio_queue, audio_buffer, is_playing, silence_output,
                 thread_id, current_thread_id, playback_thread, stream_lock,
                 wheld, callerVars, countVars, staleWrite, played>>

Min(a, b) == IF a <= b THEN a ELSE b

\* a block of n zero samples
Zeros(n) == [i \in 1..n |-> 0]

\* _callback, lines 200-227: the block written to outdata for a request of
\* frames samples
CallbackOut(buf, silent, frames) ==
  IF silent \/ Len(buf) = 0
  THEN Zeros(frames)
  ELSE IF Len(buf) >= frames
       THEN SubSeq(buf, 1, frames)
       ELSE buf \o Zeros(frames - Len(buf))

\* a callback that keeps the samples of a short buffer
CallbackRest_Keep(buf, silent, frames) ==
  IF silent \/ Len(buf) < frames
  THEN buf
  ELSE SubSeq(buf, frames + 1, Len(buf))

\* _callback, lines 200-227: the buffer the callback leaves
CallbackRest(buf, silent, frames) ==
  IF silent
  THEN buf
  ELSE IF Len(buf) >= frames
       THEN SubSeq(buf, frames + 1, Len(buf))
       ELSE <<>>

\* _callback, lines 195-227, invoked by the device for an open stream: the
\* block handed to the device is the front of the buffer
DeviceCallback(sg) ==
  /\ sg \in streamsOpen
  /\ IF silence_output
     THEN UNCHANGED <<audio_buffer, played>>
     ELSE /\ stream_lock = "free"
          /\ LET n == Min(Len(audio_buffer), BlockSize)
             IN /\ audio_buffer' = CallbackRest(audio_buffer, FALSE, BlockSize)
                /\ played' = played \cup
                     {<<audio_buffer[i], restartsReturned,
                        audio_buffer[i] \in barge.dropDue>> : i \in 1..n}
  /\ UNCHANGED <<audio_queue, is_playing, silence_output, thread_id,
                 current_thread_id, playback_thread, stream, stream_lock,
                 streamsOpen, wpc, wheld, callerVars, countVars, staleWrite>>

\* the samples of a block that are not zero padding
NonZero(block) == SelectSeq(block, LAMBDA x : x # 0)

\* a callback whose block is observed
CallbackBlock(sg) ==
  /\ blocks < MaxBlocks
  /\ DeviceCallback(sg)
  /\ outdata' = CallbackOut(audio_buffer, silence_output, BlockSize)
  /\ blocks' = blocks + 1
  /\ heard' = heard \o NonZero(outdata')
  /\ UNCHANGED <<fed, silVars, refused, sendVars, createVars, closeVars, evVars,
                 uttVars, devVars>>

(***************************************************************************)
(* Generic users of the engine's interface                                 *)
(***************************************************************************)
ApiForceRestart(t) ==
  /\ spawnOps < MaxGen
  /\ Call(t, "idle", "fr_a", "idle")
  /\ spawnOps' = spawnOps + 1
  /\ restartsBegun' = restartsBegun + 1
  /\ UNCHANGED <<audio_queue, audio_buffer, is_playing, silence_output,
                 thread_id, current_thread_id, playback_thread, stream,
                 stream_lock, streamsOpen, wpc, wheld, targ, nextChunk,
                 submitInfo, restartsReturned, stopCalls, joinTimedOut,
                 staleWrite, played>>

ApiStart(t) ==
  /\ spawnOps < MaxGen
  /\ Call(t, "idle", "sa_1", "idle")
  /\ spawnOps' = spawnOps + 1
  /\ UNCHANGED <<audio_queue, audio_buffer, is_playing, silence_output,
                 thread_id, current_thread_id, playback_thread, stream,
                 stream_lock, streamsOpen, wpc, wheld, targ, nextChunk,
                 submitInfo, restartsBegun, restartsReturned, stopCalls,
                 joinTimedOut, staleWrite, played>>

ApiStop(t) ==
  /\ stopCalls < MaxStops
  /\ Call(t, "idle", "st_1", "idle")
  /\ stopCalls' = stopCalls + 1
  /\ UNCHANGED <<audio_queue, audio_buffer, is_playing, silence_output,
                 thread_id, current_thread_id, playback_thread, stream,
                 stream_lock, streamsOpen, wpc, wheld, targ, nextChunk,
                 submitInfo, restartsBegun, restartsReturned, spawnOps,
                 joinTimedOut, staleWrite, played>>

\* the submission of the next chunk
Submit(t, to) ==
  /\ nextChunk < MaxChunks
  /\ Call(t, tpc[t], "aa_1", to)
  /\ nextChunk' = nextChunk + 1
  /\ targ' = [targ EXCEPT ![t] = <<nextChunk + 1>>]
  /\ submitInfo' = [submitInfo EXCEPT ![nextChunk + 1] = restartsBegun]

ApiStopCurrentAudio(t) ==
  /\ silenceCalls < MaxSilences
  /\ Call(t, "idle", "sc_1", "idle")
  /\ silenceCalls' = silenceCalls + 1
  /\ UNCHANGED <<audio_queue, audio_buffer, is_playing, silence_output,
                 thread_id, current_thread_id, playback_thread, stream,
                 stream_lock, streamsOpen, wpc, wheld, targ, nextChunk,
                 submitInfo, restartsBegun, restartsReturned, spawnOps,
                 stopCalls, joinTimedOut, staleWrite, played, resetPending,
                 refused, cbVars, sendVars, createVars, closeVars, evVars,
                 uttVars, devVars>>

ApiAddAudio(t) ==
  /\ tpc[t] = "idle"
  /\ Submit(t, "idle")
  /\ UNCHANGED <<audio_queue, audio_buffer, is_playing, silence_output,
                 thread_id, current_thread_id, playback_thread, stream,
                 stream_lock, streamsOpen, wpc, wheld, restartsBegun,
                 restartsReturned, spawnOps, stopCalls, joinTimedOut,
                 staleWrite, played>>

CallerStep ==
  \E t \in Threads :
       \/ /\ \/ ForceRestartClear(t)
             \/ ForceRestartSpawn(t)
             \/ Start(t)
             \/ StopMark(t)
             \/ StopCloseStream(t)
             \/ StopJoin(t)
             \/ AddAudioPut(t)
          /\ UNCHANGED auxVars
       \/ AddAudioDecode(t)

\* the statements of the worker of generation g
WorkerRun(g) ==
  \/ WorkerStart(g)
  \/ WorkerInitBuffer(g)
  \/ WorkerOpenStream(g)
  \/ WorkerLoop(g)
  \/ WorkerSize(g)
  \/ WorkerGet(g)
  \/ WorkerGetEmpty(g)
  \/ WorkerCheck(g)
  \/ WorkerAppend(g)
  \/ WorkerFinally(g)

WorkerStep ==
  /\ \E g \in Gens :
       \/ WorkerRun(g)
       \/ DeviceCallback(g)
  /\ UNCHANGED auxVars

\* stop_current_audio and the thread it starts
SilenceStep ==
  \/ \E t \in ApiThreads :
       \/ StopCurrentMark(t)
       \/ StopCurrentClear(t)
       \/ StopCurrentBuffer(t)
  \/ (ResetFlag
        /\ UNCHANGED <<refused, cbVars, sendVars, createVars, closeVars, evVars,
                 uttVars, devVars>>)

EngineStep == CallerStep \/ WorkerStep

ApiStep ==
  /\ spawnOps + stopCalls + nextChunk < MaxCalls
  /\ UNCHANGED auxVars
  /\ \E t \in ApiThreads :
    \/ ApiForceRestart(t)
    \/ ApiStart(t)
    \/ ApiStop(t)
    \/ ApiAddAudio(t)

\* users that restart the engine, submit chunks and silence it
SilenceApiStep ==
  /\ spawnOps + nextChunk + silenceCalls < MaxCalls
  /\ \E t \in ApiThreads :
    \/ (ApiForceRestart(t) /\ UNCHANGED auxVars)
    \/ (ApiAddAudio(t) /\ UNCHANGED auxVars)
    \/ ApiStopCurrentAudio(t)

\* the engine calls those users are in
SilenceCallerStep ==
  \E t \in ApiThreads :
    \/ (ForceRestartClear(t) /\ UNCHANGED auxVars)
    \/ (ForceRestartSpawn(t) /\ UNCHANGED auxVars)
    \/ (AddAudioPut(t) /\ UNCHANGED auxVars)
    \/ AddAudioDecode(t)

(***************************************************************************)
(* Session: SessionState, the connection, the handlers and coordinators    *)
(***************************************************************************)
Responses == 1..MaxEvents

RECURSIVE SumTo(_, _)
SumTo(f, n) == IF n = 0 THEN 0 ELSE f[n] + SumTo(f, n - 1)

\* the session state as the client constructs it; 0 is no response
InitialState ==
  [processing_input |-> FALSE, assistant_speaking |-> FALSE,
   current_response_id |-> 0, expecting_audio |-> FALSE,
   first_audio_chunk |-> TRUE, current_response_text |-> <<>>]

\* the client_state a handler or coordinator is handed: the state by value
Snapshot == state

\* state_updater(patch): the fields of the patch replace those of the state
Patch(patch) ==
  [k \in DOMAIN state |-> IF k \in DOMAIN patch THEN patch[k] ELSE state[k]]

\* the event_id of the n-th outbound event, f"evt_{n}"
EventId(n) == <<"evt", n>>

\* send_event: dropped without a connection, raises on a closed socket
SendOutcome ==
  IF ~connected THEN "dropped" ELSE IF ~transportUp THEN "raised" ELSE "sent"

send_event(type, arg) ==
  /\ current_event_id' = IF connected THEN current_event_id + 1
                         ELSE current_event_id
  /\ outbox' = IF SendOutcome = "sent"
               THEN Append(outbox, <<type, arg, EventId(current_event_id + 1)>>)
               ELSE outbox

\* inputs the session has received: responses begun and ended, audio and
\* transcript deltas, other events, speech onsets and the loss of the
\* connection
Inputs ==
  srvStarted + (srvStarted - (IF srvResp # 0 THEN 1 ELSE 0))
    + SumTo(deltasFor, MaxEvents) + segments
    + SumTo([r \in Responses |-> Len(seen[r])], MaxEvents) + logged
    + (IF ~transportUp /\ tpc["recv"] \notin {"idle", "rx_open"} THEN 1 ELSE 0)

NoBarge == [rid |-> 0, mark |-> 0, accepted |-> FALSE, failed |-> FALSE,
            stopped |-> FALSE, started |-> FALSE, pending |-> {},
            dropDue |-> {}, returned |-> 0, speakingAtReturn |-> FALSE,
            onsetHeld |-> FALSE, late |-> FALSE, seg |-> 0,
            before |-> FALSE]

\* the session with its connection down, or up as connect() leaves it
SessInitAt(up) ==
  /\ state = InitialState
  /\ connected = up
  /\ transportUp = up
  /\ current_event_id = 0
  /\ outbox = <<>>
  /\ snap = [t \in {"barge", "proc"} |-> InitialState]
  /\ srvResp = 0
  /\ srvStarted = 0
  /\ seg = "idle"
  /\ segments = 0
  /\ restartsFor = [r \in Responses |-> 0]
  /\ deltasFor = [r \in Responses |-> 0]
  /\ barge = NoBarge
  /\ partialFile = [r \in Responses |-> <<>>]
  /\ finalFile = [r \in Responses |-> <<>>]
  /\ finalWrites = [r \in Responses |-> 0]
  /\ seen = [r \in Responses |-> <<>>]
  /\ logged = 0

\* the session as constructed
SessInit == SessInitAt(FALSE)

\* what no step of the session changes in the engine
enginePart == <<audio_queue, audio_buffer, is_playing, silence_output,
                thread_id, current_thread_id, playback_thread, stream,
                stream_lock, streamsOpen, wpc, wheld, restartsReturned,
                joinTimedOut, staleWrite, played>>

submitVars == <<targ, nextChunk, submitInfo>>

\* calls made to the engine: start() and force_restart(), force_restart(),
\* stop()
callCounts == <<spawnOps, restartsBegun, stopCalls>>

\* a step of thread t that calls nothing
Step(t, from, to) ==
  /\ tpc[t] = from
  /\ tpc' = [tpc EXCEPT ![t] = to]
  /\ UNCHANGED <<enginePart, tret, submitVars, callCounts>>

\* thread t calls force_restart() or start()
CallSpawn(t, from, entry, to) ==
  /\ spawnOps < MaxGen
  /\ Call(t, from, entry, to)
  /\ spawnOps' = spawnOps + 1
  /\ restartsBegun' = restartsBegun + (IF entry = "fr_a" THEN 1 ELSE 0)
  /\ UNCHANGED <<enginePart, submitVars, stopCalls>>

\* thread t calls stop()
CallStop(t, from, to) ==
  /\ Call(t, from, "st_1", to)
  /\ stopCalls' = stopCalls + 1
  /\ UNCHANGED <<enginePart, submitVars, spawnOps, restartsBegun>>

\* connect(): the socket thread is started and the caller waits
Connect ==
  /\ tpc["main"] = "idle"
  /\ tpc' = [tpc EXCEPT !["main"] = "m_wait", !["recv"] = "rx_open"]
  /\ UNCHANGED <<enginePart, tret, submitVars, callCounts>>
  /\ UNCHANGED sessVars

\* on_open
OnOpen ==
  /\ Step("recv", "rx_open", "rx_idle")
  /\ connected' = TRUE
  /\ transportUp' = TRUE
  /\ UNCHANGED <<state, current_event_id, outbox, snap, srvResp, srvStarted,
                 seg, segments, restartsFor, deltasFor, barge>>

\* connect(): the wait ends without a connection and the call raises; the
\* program ends, and its socket thread with it
ConnectTimeout ==
  /\ ~connected
  /\ tpc["main"] = "m_wait"
  /\ tpc' = [tpc EXCEPT !["main"] = "m_failed", !["recv"] = "rx_closed"]
  /\ UNCHANGED <<enginePart, tret, submitVars, callCounts>>
  /\ UNCHANGED sessVars

\* a connect() that goes on without looking at the connected flag
ConnectStart_NoCheck ==
  /\ CallSpawn("main", "m_wait", "sa_1", "m_run")
  /\ UNCHANGED sessVars

\* connect(): connected, the player is started and the callbacks are set
ConnectStart ==
  /\ connected
  /\ CallSpawn("main", "m_wait", "sa_1", "m_run")
  /\ UNCHANGED sessVars

\* the socket closes
TransportDrop ==
  /\ transportUp /\ Inputs < MaxEvents
  /\ transportUp' = FALSE
  /\ UNCHANGED <<state, connected, current_event_id, outbox, snap, srvResp,
                 srvStarted, seg, segments, restartsFor, deltasFor,
                 barge>>
  /\ UNCHANGED <<enginePart, callerVars, nextChunk, submitInfo, callCounts>>

\* on_close / on_error, then the socket thread ends
OnClose ==
  /\ ~transportUp
  /\ Step("recv", "rx_idle", "rx_closed")
  /\ connected' = FALSE
  /\ UNCHANGED <<state, transportUp, current_event_id, outbox, snap, srvResp,
                 srvStarted, seg, segments, restartsFor, deltasFor,
                 barge>>

(* send_event, statement by statement, for senders that run concurrently *)

\* where a sender is when it is not inside send_event
Home(t) == IF t = "recv" THEN "rx_idle" ELSE "idle"

\* what the statements of send_event leave alone
sendFrame == <<enginePart, tret, submitVars, callCounts, state, connected,
               transportUp, snap, srvResp, srvStarted, seg, segments,
               restartsFor, deltasFor, barge, textVars, silVars, refused,
               cbVars, sendCalls, createVars, closeVars, evVars,
                 uttVars, devVars>>

\* a sender calls send_event: the socket thread while handling an event, the
\* other two once connect() has returned
SendCall(t) ==
  /\ sendCalls < MaxSends
  /\ t # "recv" => tpc["main"] = "m_run"
  /\ Call(t, Home(t), "se_check", Home(t))
  /\ sendCalls' = sendCalls + 1
  /\ UNCHANGED <<enginePart, submitVars, callCounts, sessVars, silVars,
                 refused, cbVars, sreg, createVars, closeVars, evVars,
                 uttVars, devVars>>

\* send_event, lines 187-189: without a connection the call returns
SendCheck(t) ==
  /\ tpc[t] = "se_check"
  /\ tpc' = [tpc EXCEPT ![t] = IF connected THEN "se_load" ELSE tret[t]]
  /\ UNCHANGED <<sendFrame, current_event_id, outbox, sreg>>

\* send_event, line 191: self.current_event_id += 1, the read
SendLoad(t) ==
  /\ tpc[t] = "se_load"
  /\ sreg' = [sreg EXCEPT ![t] = current_event_id]
  /\ tpc' = [tpc EXCEPT ![t] = "se_store"]
  /\ UNCHANGED <<sendFrame, current_event_id, outbox>>

\* send_event, line 191: self.current_event_id += 1, the write
SendStore(t) ==
  /\ tpc[t] = "se_store"
  /\ current_event_id' = sreg[t] + 1
  /\ tpc' = [tpc EXCEPT ![t] = "se_read"]
  /\ UNCHANGED <<sendFrame, outbox, sreg>>

\* send_event, line 192: event_id = f"evt_{self.current_event_id}"
SendRead(t) ==
  /\ tpc[t] = "se_read"
  /\ sreg' = [sreg EXCEPT ![t] = current_event_id]
  /\ tpc' = [tpc EXCEPT ![t] = "se_send"]
  /\ UNCHANGED <<sendFrame, current_event_id, outbox>>

\* send_event, lines 194-199: the event is built and handed to the socket,
\* which raises when it is closed
SendTransmit(t) ==
  /\ tpc[t] = "se_send"
  /\ outbox' = IF transportUp
               THEN Append(outbox, <<"event", 0, EventId(sreg[t])>>)
               ELSE outbox
  /\ sreg' = [sreg EXCEPT ![t] = 0]
  /\ Return(t)
  /\ UNCHANGED <<sendFrame, current_event_id>>

SendStep ==
  \E t \in Senders :
    \/ SendCall(t)
    \/ SendCheck(t)
    \/ SendLoad(t)
    \/ SendStore(t)
    \/ SendRead(t)
    \/ SendTransmit(t)

(* Inbound events, handled one at a time by the socket thread *)

\* ResponseCreatedEventHandler.handle for response r
ResponseCreated(r) ==
  state' = Patch([current_response_id |-> r, expecting_audio |-> TRUE,
                  first_audio_chunk |-> TRUE])

\* response.created arrives and is handled
RecvResponseCreated ==
  /\ transportUp /\ srvResp = 0 /\ Inputs < MaxEvents
  /\ Step("recv", "rx_idle", "rx_idle")
  /\ srvStarted' = srvStarted + 1
  /\ srvResp' = srvStarted + 1
  /\ ResponseCreated(srvStarted + 1)
  /\ UNCHANGED <<connected, transportUp, current_event_id, outbox, snap, seg,
                 segments, restartsFor, deltasFor, barge>>

\* AudioDeltaEventHandler.handle, line 34: this delta restarts the player
FirstDelta(cs) == cs.first_audio_chunk \/ cs.expecting_audio

\* the response the remote service streams is the one a returned barge-in
\* cancelled, the cancel having been transmitted
CancelledStreaming ==
  /\ srvResp # 0 /\ srvResp = barge.rid
  /\ barge.accepted /\ barge.returned >= 1
  /\ tpc["barge"] = "idle"

\* response.audio.delta arrives: the handler is handed the snapshot and
\* takes the branch of lines 34-45
RecvAudioDelta ==
  /\ transportUp /\ srvResp # 0
  /\ Inputs < MaxEvents
  /\ SumTo(deltasFor, MaxEvents) < MaxChunks
  /\ deltasFor' = [deltasFor EXCEPT ![srvResp] = @ + 1]
  /\ IF FirstDelta(Snapshot)
     THEN /\ CallSpawn("recv", "rx_idle", "fr_a", "ad_first")
          /\ restartsFor' = [restartsFor EXCEPT ![srvResp] = @ + 1]
     ELSE /\ Step("recv", "rx_idle",
                  IF Snapshot.assistant_speaking THEN "ad_add" ELSE "ad_speak")
          /\ UNCHANGED restartsFor
  /\ barge' = [barge EXCEPT !.late = CancelledStreaming]
  /\ UNCHANGED <<state, connected, transportUp, current_event_id, outbox, snap,
                 srvResp, srvStarted, seg, segments>>

\* AudioDeltaEventHandler.handle, lines 39-43
DeltaPatchFirst ==
  /\ Step("recv", "ad_first", "ad_add")
  /\ state' = Patch([first_audio_chunk |-> FALSE, expecting_audio |-> FALSE,
                     assistant_speaking |-> TRUE])
  /\ UNCHANGED <<connected, transportUp, current_event_id, outbox, snap,
                 srvResp, srvStarted, seg, segments, restartsFor,
                 deltasFor, barge>>

\* AudioDeltaEventHandler.handle, lines 44-46
DeltaPatchSpeaking ==
  /\ Step("recv", "ad_speak", "ad_add")
  /\ state' = Patch([assistant_speaking |-> TRUE])
  /\ UNCHANGED <<connected, transportUp, current_event_id, outbox, snap,
                 srvResp, srvStarted, seg, segments, restartsFor,
                 deltasFor, barge>>

\* AudioDeltaEventHandler.handle, lines 49-56: the delta's audio, if it has
\* any, goes to the player
DeltaAddAudio ==
  /\ tpc["recv"] = "ad_add"
  /\ \E empty \in BOOLEAN :
       IF empty
       THEN /\ tpc' = [tpc EXCEPT !["recv"] = "rx_idle"]
            /\ UNCHANGED <<tret, submitVars>>
       ELSE Submit("recv", "rx_idle")
  /\ UNCHANGED <<enginePart, callCounts>>
  /\ UNCHANGED sessVars

\* EventHandlerFactory.initialize_default_handlers: the registered types
Registered ==
  {"input_audio_buffer.speech_started", "input_audio_buffer.committed",
   "conversation.item.created", "response.created", "rate_limits.updated",
   "response.output_item.added", "response.content_part.added",
   "response.audio.delta", "response.audio_transcript.delta", "error",
   "response.done", "session.updated"}

\* the inbound event types: the registered ones and two the factory does
\* not know
EventTypes == Registered \cup {"response.text.delta", "unknown"}

\* EventHandlerFactory.get_handler: the handler registered for the type, or
\* the default handler
get_handler(type) == IF type \in Registered THEN type ELSE "default"

\* the handlers that change the state, send events or use the player
ActingHandlers ==
  {"response.created", "response.audio.delta",
   "response.audio_transcript.delta", "response.done"}

\* the types whose events only get logged
LogOnlyTypes == {type \in EventTypes : get_handler(type) \notin ActingHandlers}

\* a log-only handler that clears the speaking flag
LogOnlyPatch_Clear == [k \in {"assistant_speaking"} |-> FALSE]

\* ErrorEventHandler.handle and the other handlers that only log: no field
\* of the state is patched
LogOnlyPatch == [k \in {} |-> FALSE]

\* an event of a log-only type arrives and is handled
RecvLogOnly ==
  /\ transportUp /\ Inputs < MaxEvents
  /\ Step("recv", "rx_idle", "rx_idle")
  /\ \E type \in LogOnlyTypes : state' = Patch(LogOnlyPatch)
  /\ logged' = logged + 1
  /\ UNCHANGED <<connected, transportUp, current_event_id, outbox, snap,
                 srvResp, srvStarted, seg, segments, restartsFor, deltasFor,
                 barge, partialFile, finalFile, finalWrites, seen>>

\* the delta strings of transcript events: the empty one and two others
TextDeltas == {<<>>, <<"a">>, <<"b">>}

\* a save whose final write leaves the partial file in place
SaveResponseText_KeepPartial(st, final) ==
  LET r == st.current_response_id
      text == st.current_response_text
  IN IF text = <<>>
     THEN UNCHANGED <<partialFile, finalFile, finalWrites>>
     ELSE IF final
          THEN /\ finalFile' = [finalFile EXCEPT ![r] = text]
               /\ finalWrites' = [finalWrites EXCEPT ![r] = @ + 1]
               /\ UNCHANGED partialFile
          ELSE /\ partialFile' = [partialFile EXCEPT ![r] = text]
               /\ UNCHANGED <<finalFile, finalWrites>>

\* _save_response_text(final) called with the client in state st: nothing
\* for an empty text; the partial file is written, or the final file is
\* written and the partial file removed
SaveResponseText(st, final) ==
  LET r == st.current_response_id
      text == st.current_response_text
  IN IF text = <<>>
     THEN UNCHANGED <<partialFile, finalFile, finalWrites>>
     ELSE IF final
          THEN /\ finalFile' = [finalFile EXCEPT ![r] = text]
               /\ partialFile' = [partialFile EXCEPT ![r] = <<>>]
               /\ finalWrites' = [finalWrites EXCEPT ![r] = @ + 1]
          ELSE /\ partialFile' = [partialFile EXCEPT ![r] = text]
               /\ UNCHANGED <<finalFile, finalWrites>>

\* the delta put in front of the text
AppendDelta_Prepend(cs, delta) == delta \o cs.current_response_text

\* AudioTranscriptDeltaEventHandler.handle, lines 36-41: the text of the
\* snapshot followed by the delta
AppendDelta(cs, delta) == cs.current_response_text \o delta

\* response.audio_transcript.delta arrives and is handled: the text is
\* patched, then saved as partial when the snapshot names a response
RecvTranscriptDelta ==
  /\ transportUp /\ srvResp # 0 /\ Inputs < MaxEvents
  /\ Step("recv", "rx_idle", "rx_idle")
  /\ \E delta \in TextDeltas :
       /\ state' = Patch([current_response_text |-> AppendDelta(Snapshot, delta)])
       /\ seen' = [seen EXCEPT ![srvResp] = Append(@, delta)]
  /\ IF Snapshot.current_response_id # 0
     THEN SaveResponseText(state', FALSE)
     ELSE UNCHANGED <<partialFile, finalFile, finalWrites>>
  /\ UNCHANGED <<connected, transportUp, current_event_id, outbox, snap,
                 srvResp, srvStarted, seg, segments, restartsFor, deltasFor,
                 barge, logged>>

\* a reset that keeps the transcript text
DoneReset_KeepText ==
  [processing_input |-> FALSE, assistant_speaking |-> FALSE,
   current_response_id |-> 0, first_audio_chunk |-> TRUE,
   expecting_audio |-> FALSE]

\* ResponseDoneEventHandler.handle, lines 39-48: the values the state is
\* reset to
DoneReset ==
  [current_response_text |-> <<>>, processing_input |-> FALSE,
   assistant_speaking |-> FALSE, current_response_id |-> 0,
   first_audio_chunk |-> TRUE, expecting_audio |-> FALSE]

\* ResponseDoneEventHandler.handle, lines 35-48: response.done arrives; the
\* final save, when the snapshot has a text and names a response, then the
\* reset of the state
RecvResponseDone ==
  /\ transportUp /\ srvResp # 0 /\ Inputs < MaxEvents
  /\ Step("recv", "rx_idle", "rd_send")
  /\ srvResp' = 0
  /\ IF Snapshot.current_response_text # <<>> /\ Snapshot.current_response_id # 0
     THEN SaveResponseText(state, TRUE)
     ELSE UNCHANGED <<partialFile, finalFile, finalWrites>>
  /\ state' = Patch(DoneReset)
  /\ UNCHANGED <<connected, transportUp, current_event_id, outbox, snap,
                 srvStarted, seg, segments, restartsFor, deltasFor, barge,
                 seen, logged>>

\* ResponseDoneEventHandler.handle, lines 50-57: the session.update; an error
\* of the send is caught by on_message
DoneSend ==
  /\ Step("recv", "rd_send", "rx_idle")
  /\ send_event("session.update", 0)
  /\ UNCHANGED <<state, connected, transportUp, snap, srvResp, srvStarted, seg,
                 segments, restartsFor, deltasFor, barge, textVars>>

(* Recorder signals, each delivered on a thread of its own *)

\* chunks the engine holds: queued, taken by a worker, or buffered
Elems(q) == {q[i] : i \in 1..Len(q)}

Held ==
  UNION {Elems(audio_queue[i]) : i \in 1..Len(audio_queue)}
    \cup UNION {Elems(wheld[g]) : g \in Gens}
    \cup Elems(audio_buffer)

\* the recorder detects speech onset and fires speech-detected
SpeechDetected ==
  /\ tpc["main"] = "m_run"
  /\ seg = "idle" /\ Inputs < MaxEvents
  /\ Step("barge", "idle", "bi_begin")
  /\ seg' = "armed"
  /\ segments' = segments + 1
  /\ barge' = [barge EXCEPT !.onsetHeld = (Held # {})]
  /\ UNCHANGED <<state, connected, transportUp, current_event_id, outbox, snap,
                 srvResp, srvStarted, restartsFor, deltasFor>>

\* the segment that just finished is the one whose onset started a barge-in
\* that acted and has returned
AfterBargeIn ==
  /\ barge.seg = segments
  /\ barge.returned >= 1
  /\ tpc["barge"] = "idle"

\* the segment ends; a valid one fires recording-finished
SegmentEnd ==
  /\ seg = "armed"
  /\ seg' = "idle"
  /\ \E valid \in BOOLEAN :
       IF valid
       THEN /\ Step("proc", "idle", "pr_begin")
            /\ barge' = [barge EXCEPT !.before = AfterBargeIn]
       ELSE UNCHANGED <<enginePart, callerVars, nextChunk, submitInfo,
                        callCounts, barge>>
  /\ UNCHANGED <<state, connected, transportUp, current_event_id, outbox, snap,
                 srvResp, srvStarted, segments, restartsFor,
                 deltasFor>>

(* Barge-in coordinator: BargeinHandler.handle *)

\* a coordinator that acts whatever its snapshot says
BargeActs_Always(cs) == TRUE

\* line 25: the coordinator acts when its snapshot says the assistant speaks
BargeActs(cs) == cs.assistant_speaking

\* lines 25-27: handed the snapshot, the coordinator decides whether to act
BargeBegin ==
  /\ Step("barge", "bi_begin", IF BargeActs(Snapshot) THEN "bi_cancel" ELSE "idle")
  /\ snap' = IF BargeActs(Snapshot) THEN [snap EXCEPT !["barge"] = Snapshot]
             ELSE snap
  /\ barge' = IF BargeActs(Snapshot)
              THEN [barge EXCEPT !.rid = Snapshot.current_response_id,
                                 !.mark = Len(outbox), !.accepted = FALSE,
                                 !.failed = FALSE, !.stopped = FALSE,
                                 !.started = FALSE, !.pending = Held,
                                 !.onsetHeld = FALSE, !.seg = segments]
              ELSE [barge EXCEPT !.onsetHeld = FALSE]
  /\ UNCHANGED <<state, connected, transportUp, current_event_id, outbox,
                 srvResp, srvStarted, seg, segments, restartsFor,
                 deltasFor>>

\* a coordinator that lets the error of a failed send reach its caller
BargeCancel_Propagate ==
  /\ Step("barge", "bi_cancel",
          IF snap["barge"].current_response_id # 0 /\ SendOutcome = "raised"
          THEN "idle" ELSE "bi_stop")
  /\ IF snap["barge"].current_response_id # 0
     THEN /\ send_event("response.cancel", snap["barge"].current_response_id)
          /\ barge' = [barge EXCEPT !.accepted = (SendOutcome = "sent"),
                                    !.failed = (SendOutcome = "raised"),
                                    !.returned = @ + (IF SendOutcome = "raised"
                                                      THEN 1 ELSE 0)]
     ELSE UNCHANGED <<current_event_id, outbox, barge>>
  /\ snap' = [snap EXCEPT !["barge"] = InitialState]
  /\ UNCHANGED <<state, connected, transportUp, srvResp, srvStarted, seg,
                 segments, restartsFor, deltasFor>>

\* lines 29-35: the cancel of the snapshot's response, if it names one; a
\* failure of the send is caught and logged
BargeCancel ==
  /\ Step("barge", "bi_cancel", "bi_stop")
  /\ IF snap["barge"].current_response_id # 0
     THEN /\ send_event("response.cancel", snap["barge"].current_response_id)
          /\ barge' = [barge EXCEPT !.accepted = (SendOutcome = "sent"),
                                    !.failed = (SendOutcome = "raised")]
     ELSE UNCHANGED <<current_event_id, outbox, barge>>
  /\ snap' = [snap EXCEPT !["barge"] = InitialState]
  /\ UNCHANGED <<state, connected, transportUp, srvResp, srvStarted, seg,
                 segments, restartsFor, deltasFor>>

\* line 38: player.stop()
BargeStop ==
  /\ CallStop("barge", "bi_stop", "bi_start")
  /\ barge' = [barge EXCEPT !.stopped = TRUE]
  /\ UNCHANGED <<state, connected, transportUp, current_event_id, outbox, snap,
                 srvResp, srvStarted, seg, segments, restartsFor, deltasFor,
                 textVars>>

\* lines 41-44: the sleep, then player.start()
BargeStart ==
  /\ CallSpawn("barge", "bi_start", "sa_1", "bi_patch")
  /\ barge' = [barge EXCEPT !.started = TRUE]
  /\ UNCHANGED <<state, connected, transportUp, current_event_id, outbox, snap,
                 srvResp, srvStarted, seg, segments, restartsFor, deltasFor,
                 textVars>>

\* line 47: the patch the coordinator ends with
BargeFinalPatch_Keep == [assistant_speaking |-> state.assistant_speaking]

BargeFinalPatch == [assistant_speaking |-> FALSE]

\* lines 47-50: the patch, and the coordinator returns
BargeReturn ==
  /\ Step("barge", "bi_patch", "idle")
  /\ state' = Patch(BargeFinalPatch)
  /\ barge' = [barge EXCEPT !.returned = @ + 1,
                            !.dropDue = @ \cup barge.pending,
                            !.speakingAtReturn = state'.assistant_speaking]
  /\ UNCHANGED <<connected, transportUp, current_event_id, outbox, snap,
                 srvResp, srvStarted, seg, segments, restartsFor,
                 deltasFor>>

(* Recording-finished coordinator: AudioProcessor.process *)

\* lines 39-43: the guard on processing_input, then the flag is set
ProcBegin ==
  /\ Step("proc", "pr_begin",
          IF Snapshot.processing_input THEN "idle" ELSE "pr_audio")
  /\ snap' = IF Snapshot.processing_input THEN snap
             ELSE [snap EXCEPT !["proc"] = Snapshot]
  /\ state' = IF Snapshot.processing_input THEN state
              ELSE Patch([processing_input |-> TRUE])
  /\ UNCHANGED <<connected, transportUp, current_event_id, outbox, srvResp,
                 srvStarted, seg, segments, restartsFor, deltasFor, barge>>

\* lines 46-50: the recording, which may have been cleared meanwhile
ProcAudio ==
  /\ \E empty \in BOOLEAN :
       IF empty
       THEN /\ Step("proc", "pr_audio", "idle")
            /\ state' = Patch([processing_input |-> FALSE])
       ELSE /\ Step("proc", "pr_audio",
                    IF snap["proc"].assistant_speaking THEN "pr_stop"
                    ELSE "pr_append")
            /\ UNCHANGED state
  /\ snap' = [snap EXCEPT !["proc"] = InitialState]
  /\ UNCHANGED <<connected, transportUp, current_event_id, outbox, srvResp,
                 srvStarted, seg, segments, restartsFor, deltasFor, barge>>

\* line 57: player.stop()
ProcStop ==
  /\ CallStop("proc", "pr_stop", "pr_start")
  /\ UNCHANGED sessVars

\* lines 58-59: the sleep, then player.start()
ProcStart ==
  /\ CallSpawn("proc", "pr_start", "sa_1", "pr_patch")
  /\ UNCHANGED sessVars

\* line 60
ProcPatchSpeaking ==
  /\ Step("proc", "pr_patch", "pr_append")
  /\ state' = Patch([assistant_speaking |-> FALSE])
  /\ UNCHANGED <<connected, transportUp, current_event_id, outbox, snap,
                 srvResp, srvStarted, seg, segments, restartsFor,
                 deltasFor, barge>>

\* a send of the coordinator: an error sends it to the except branch of
\* lines 84-86
ProcSendArg(from, type, arg, to) ==
  /\ Step("proc", from, IF SendOutcome = "raised" THEN "idle" ELSE to)
  /\ send_event(type, arg)
  /\ state' = IF SendOutcome = "raised"
              THEN Patch([processing_input |-> FALSE])
              ELSE state
  /\ UNCHANGED <<connected, transportUp, snap, srvResp, srvStarted, seg,
                 segments, restartsFor, deltasFor, barge>>

ProcSend(from, type, to) == ProcSendArg(from, type, 0, to)

\* line 63
ProcAppend == ProcSend("pr_append", "input_audio_buffer.append", "pr_commit")

\* line 66
ProcCommit == ProcSend("pr_commit", "input_audio_buffer.commit", "pr_create")

\* the fields create() reads from its keyword arguments
Fields ==
  {"instructions", "modalities", "voice", "output_audio_format", "tools",
   "tool_choice", "temperature", "max_output_tokens"}

\* the values a caller supplies for a field; "None" is Python's None and
\* "[]" the empty list
Supplied(k) ==
  CASE k = "instructions" -> {"None", "Be brief."}
    [] k = "modalities" -> {"text"}
    [] k = "voice" -> {"alloy"}
    [] k = "output_audio_format" -> {"g711_ulaw"}
    [] k = "tools" -> {"None", "[]", "[lookup]"}
    [] k = "tool_choice" -> {"required"}
    [] k = "temperature" -> {"0.2"}
    [] k = "max_output_tokens" -> {"256"}

Tokens == UNION {Supplied(k) : k \in Fields}

\* the keyword arguments of a call: at most MaxSupplied fields
KwargInputs ==
  UNION {{kw \in [D -> Tokens] : \A k \in D : kw[k] \in Supplied(k)} :
           D \in {E \in SUBSET Fields : Cardinality(E) <= MaxSupplied}}

\* self.default_instructions
default_instructions == "Please assist the user."

\* kwargs.get(k, d)
Get(kw, k, d) == IF k \in DOMAIN kw THEN kw[k] ELSE d

\* ResponseCreator.create, lines 32-59: the response configuration
ResponseConfig(kw) ==
  LET instructions == Get(kw, "instructions", "None")
      base == [modalities |-> Get(kw, "modalities", "text,audio"),
               instructions |-> IF instructions # "None" THEN instructions
                                ELSE default_instructions,
               voice |-> Get(kw, "voice", "sage"),
               output_audio_format |-> Get(kw, "output_audio_format", "pcm16"),
               temperature |-> Get(kw, "temperature", "0.8"),
               max_output_tokens |-> Get(kw, "max_output_tokens", "1024")]
  IN IF Get(kw, "tools", "None") \notin {"None", "[]"}
     THEN base @@ [tools |-> kw["tools"],
                   tool_choice |-> Get(kw, "tool_choice", "auto")]
     ELSE base

\* ResponseCreator.create, lines 61-64: the create-response event
CreateSend ==
  ProcSendArg("pr_create", "response.create", ResponseConfig(kwargs), "pr_flags")

\* ResponseCreator.create, lines 67-71: the flags, patched after the send
CreateFlags == [expecting_audio |-> TRUE, first_audio_chunk |-> TRUE]

CreatePatch ==
  /\ Step("proc", "pr_flags", "pr_clear")
  /\ state' = Patch(CreateFlags)
  /\ UNCHANGED <<connected, transportUp, current_event_id, outbox, snap,
                 srvResp, srvStarted, seg, segments, restartsFor,
                 deltasFor, barge>>

\* the application calls create_response(**kwargs) once connect() returned
CreateCall ==
  /\ createCalls < MaxCreates
  /\ Step("main", "m_run", "cr_send")
  /\ createCalls' = createCalls + 1
  /\ UNCHANGED <<sessVars, kwargs>>

\* ResponseCreator.create, lines 61-64, called by the application: an error
\* of the send goes to the caller
MainCreateSend ==
  /\ Step("main", "cr_send",
          IF SendOutcome = "raised" THEN "m_run" ELSE "cr_flags")
  /\ send_event("response.create", ResponseConfig(kwargs))
  /\ UNCHANGED <<state, connected, transportUp, snap, srvResp, srvStarted, seg,
                 segments, restartsFor, deltasFor, barge, textVars,
                 createVars>>

\* ResponseCreator.create, lines 67-71, called by the application
MainCreatePatch ==
  /\ Step("main", "cr_flags", "m_run")
  /\ state' = Patch(CreateFlags)
  /\ UNCHANGED <<connected, transportUp, current_event_id, outbox, snap,
                 srvResp, srvStarted, seg, segments, restartsFor,
                 deltasFor, barge, textVars, createVars>>

\* line 82: recorder.clear_recording()
ProcClear ==
  /\ Step("proc", "pr_clear", "idle")
  /\ UNCHANGED sessVars

(* run_conversation and disconnect: auto_client.py, lines 275-292, 177-183 *)

\* what the steps of run_conversation and disconnect leave alone
closeFrame == <<recVars, silVars, refused, cbVars, sendVars, createVars,
               evVars, uttVars, devVars>>

\* run_conversation: recorder.start_listening(), then the loop
StartListening ==
  /\ Step("main", "m_run", "m_loop")
  /\ is_listening' = TRUE
  /\ UNCHANGED <<sessVars, closeFrame>>

\* run_conversation: `while self.connected` ends, the finally clause begins
LeaveLoop ==
  /\ ~connected
  /\ Step("main", "m_loop", "dc_close")
  /\ UNCHANGED <<sessVars, closeFrame, closeVars>>

\* disconnect: ws.close()
DisconnectClose ==
  /\ Step("main", "dc_close", "dc_stop")
  /\ transportUp' = FALSE
  /\ UNCHANGED <<state, connected, current_event_id, outbox, snap, srvResp,
                 srvStarted, seg, segments, restartsFor, deltasFor, barge,
                 textVars>>
  /\ UNCHANGED <<closeFrame, closeVars>>

\* disconnect: player.stop()
DisconnectStop ==
  /\ CallStop("main", "dc_stop", "dc_rec")
  /\ UNCHANGED <<sessVars, closeFrame, closeVars>>

\* a disconnect that leaves the recorder listening
DisconnectRecorder_Keep ==
  /\ Step("main", "dc_rec", "m_done")
  /\ UNCHANGED <<sessVars, closeFrame, closeVars>>

\* disconnect: recorder.stop_listening()
DisconnectRecorder ==
  /\ Step("main", "dc_rec", "m_done")
  /\ is_listening' = FALSE
  /\ UNCHANGED <<sessVars, closeFrame>>

\* the socket thread and the connection, the transcript left alone
LinkStep ==
  \/ Connect
  \/ OnOpen
  \/ ConnectTimeout
  \/ ConnectStart
  \/ TransportDrop
  \/ OnClose
  \/ RecvResponseCreated
  \/ RecvAudioDelta
  \/ DeltaPatchFirst
  \/ DeltaPatchSpeaking
  \/ DeltaAddAudio
  \/ DoneSend

\* the utterance-processing thread
ProcStep ==
  \/ SegmentEnd
  \/ ProcBegin
  \/ ProcAudio
  \/ ProcStop
  \/ ProcStart
  \/ ProcPatchSpeaking
  \/ ProcAppend
  \/ ProcCommit
  \/ CreateSend
  \/ CreatePatch
  \/ ProcClear

\* the barge-in thread
BargeInStep ==
  \/ SpeechDetected
  \/ BargeBegin
  \/ BargeCancel
  \/ BargeStop
  \/ BargeStart
  \/ BargeReturn

SessionStep ==
  \/ ((LinkStep \/ ProcStep \/ BargeInStep) /\ UNCHANGED textVars)
  \/ RecvTranscriptDelta
  \/ RecvResponseDone
  \/ RecvLogOnly

InitRecorder ==
  /\ \E sil \in ShortDurations, minsp \in ShortDurations, pre \in ShortDurations :
       RecInit(sil, minsp, pre)
  /\ scn = <<0, 0, 0, 0>>
  /\ kwargs = NoKwargs
  /\ PlayerInit
  /\ SessInit

InitScenario ==
  /\ RecInit(DefaultSilenceMs, DefaultMinSpeechMs, DefaultPreBufferMs)
  /\ scn = <<1, 0, 0, 0>>
  /\ kwargs = NoKwargs
  /\ PlayerInit
  /\ SessInit

\* the engine as constructed, with the recorder at its defaults and not fed
InitPlayer ==
  /\ RecInit(DefaultSilenceMs, DefaultMinSpeechMs, DefaultPreBufferMs)
  /\ scn = <<0, 0, 0, 0>>
  /\ kwargs = NoKwargs
  /\ PlayerInit
  /\ SessInit

NextPlayer ==
  \/ (EngineStep /\ UNCHANGED <<recVars, sessVars>>)
  \/ (ApiStep /\ UNCHANGED <<recVars, sessVars>>)

\* the playback engine used through its interface by concurrent callers
SpecPlayer == InitPlayer /\ [][NextPlayer]_vars

\* users of the engine that start it, restart it and submit chunks, making
\* MaxWorkerCalls calls between them
WorkersApiStep ==
  /\ spawnOps + nextChunk < MaxWorkerCalls
  /\ UNCHANGED auxVars
  /\ \E t \in ApiThreads :
    \/ ApiForceRestart(t)
    \/ ApiStart(t)
    \/ ApiAddAudio(t)

\* the engine calls those users are in
WorkersCallerStep ==
  \E t \in ApiThreads :
    \/ /\ \/ ForceRestartClear(t)
          \/ ForceRestartSpawn(t)
          \/ Start(t)
          \/ AddAudioPut(t)
       /\ UNCHANGED auxVars
    \/ AddAudioDecode(t)

NextWorkers ==
  \/ (WorkersCallerStep /\ UNCHANGED <<recVars, sessVars>>)
  \/ (WorkerStep /\ UNCHANGED <<recVars, sessVars>>)
  \/ (WorkersApiStep /\ UNCHANGED <<recVars, sessVars>>)

\* the same engine with its threads scheduled: a worker that can take a step
\* takes one in the end, and so does a caller inside an engine call
SpecWorkers ==
  /\ InitPlayer /\ [][NextWorkers]_vars
  /\ \A g \in Gens :
       WF_vars(WorkerRun(g) /\ UNCHANGED <<auxVars, recVars, sessVars>>)
  /\ WF_vars(WorkersCallerStep /\ UNCHANGED <<recVars, sessVars>>)

\* buffer_event after the worker's append: line 294 sets it when the chunk
\* has samples
EventAfterAppend(ev, samples) == ev \/ Len(samples) > 0

\* buffer_event after a device callback, lines 201-227: untouched while
\* silencing, cleared when the callback leaves the buffer empty
EventAfterCallback(ev, silent, rest) ==
  IF silent THEN ev ELSE ev /\ Len(rest) > 0

\* the workers and the device, with the buffer-ready signal they set and clear
BufferWorkerStep ==
  /\ \E g \in Gens :
       \/ /\ \/ WorkerStart(g)
             \/ WorkerInitBuffer(g)
             \/ WorkerOpenStream(g)
             \/ WorkerLoop(g)
             \/ WorkerSize(g)
             \/ WorkerGet(g)
             \/ WorkerGetEmpty(g)
             \/ WorkerCheck(g)
             \/ WorkerFinally(g)
          /\ UNCHANGED buffer_event
       \/ /\ WorkerAppend(g)
          /\ buffer_event' = EventAfterAppend(buffer_event, wheld[g])
       \/ /\ DeviceCallback(g)
          /\ buffer_event' =
               EventAfterCallback(buffer_event, silence_output, audio_buffer')
  /\ UNCHANGED <<silVars, refused, cbVars, sendVars, createVars, closeVars,
                 uttVars, devVars>>

NextBuffer ==
  \/ (WorkersCallerStep /\ UNCHANGED <<recVars, sessVars>>)
  \/ (BufferWorkerStep /\ UNCHANGED <<recVars, sessVars>>)
  \/ (WorkersApiStep /\ UNCHANGED <<recVars, sessVars>>)

\* the engine with its buffer-ready signal followed
SpecBuffer == InitPlayer /\ [][NextBuffer]_vars

(* The recorder and its recording-finished callbacks: audio_callback,      *)
(* AudioProcessor.process and clear_recording                              *)

\* what the steps of a recording-finished callback leave alone
uttFrame == <<playerVars, silVars, refused, cbVars, sendVars, createVars,
              closeVars, evVars, devVars>>

\* the recorder but for the recording itself
recRest == <<silence_threshold, min_speech_frames, pre_buffer_size,
             speech_detected, silence_frames, speech_frames,
             speech_start_time, pre_buffer, nCaptured, detectedCalls,
             finishedCalls, lastOutcome, anyLoud, fedEqual, silentRun, scn>>

\* the session but for its state, the event counter and the events sent
sessRest == <<connected, transportUp, snap, srvResp, srvStarted, seg,
              segments, restartsFor, deltasFor, barge, textVars>>

\* a step of the callback thread of utterance k
UttGoto(k, label) == upc' = [upc EXCEPT ![k] = label]

\* audio_callback for the next frame; line 191 starts the callback thread of
\* a recording that was stopped
UttFrame ==
  /\ nCaptured < MaxFrames
  /\ \E vol \in {threshold - 1, threshold + 1} : audio_callback(vol)
  /\ finishedCalls' <= MaxUtterances
  /\ IF finishedCalls' > finishedCalls
     THEN /\ UttGoto(finishedCalls', "u_begin")
          /\ uframes' = [uframes EXCEPT ![finishedCalls'] = recorded_frames']
     ELSE UNCHANGED <<upc, uframes>>
  /\ UNCHANGED <<scn, uaudio, udone, sessVars, uttFrame>>

\* AudioProcessor.process, lines 39-43: the guard, then the flag is set
UttGuard(k) ==
  /\ upc[k] = "u_begin"
  /\ UttGoto(k, IF Snapshot.processing_input THEN "skipped" ELSE "u_audio")
  /\ state' = IF Snapshot.processing_input THEN state
              ELSE Patch([processing_input |-> TRUE])
  /\ UNCHANGED <<current_event_id, outbox, sessRest>>
  /\ UNCHANGED <<recVars, uaudio, uframes, udone, uttFrame>>

\* lines 46-50: the recorder's frames are read and encoded
UttAudio(k) ==
  /\ upc[k] = "u_audio"
  /\ LET audio_data == get_base64_audio(recorded_frames)
     IN IF audio_data = NoAudio
        THEN /\ UttGoto(k, "empty")
             /\ state' = Patch([processing_input |-> FALSE])
             /\ UNCHANGED uaudio
        ELSE /\ UttGoto(k, "u_append")
             /\ uaudio' = [uaudio EXCEPT ![k] = audio_data]
             /\ UNCHANGED state
  /\ UNCHANGED <<current_event_id, outbox, sessRest>>
  /\ UNCHANGED <<recVars, uframes, udone, uttFrame>>

\* a send of the callback thread; an error sends it to lines 84-86
UttSend(k, from, type, arg, to) ==
  /\ upc[k] = from
  /\ UttGoto(k, IF SendOutcome = "raised" THEN "failed" ELSE to)
  /\ send_event(type, arg)
  /\ state' = IF SendOutcome = "raised"
              THEN Patch([processing_input |-> FALSE])
              ELSE state
  /\ UNCHANGED sessRest
  /\ UNCHANGED <<recVars, uaudio, uframes, udone, uttFrame>>

\* lines 63, 66 and 79, with the assistant silent: append, commit, create
UttAppend(k) ==
  UttSend(k, "u_append", "input_audio_buffer.append", uaudio[k], "u_commit")

UttCommit(k) == UttSend(k, "u_commit", "input_audio_buffer.commit", 0, "u_create")

UttCreate(k) ==
  UttSend(k, "u_create", "response.create", ResponseConfig(kwargs), "u_clear")

\* line 82 and clear_recording, lines 221-225
UttClear(k) ==
  /\ upc[k] = "u_clear"
  /\ UttGoto(k, "done")
  /\ recorded_frames' = <<>>
  /\ is_recording' = FALSE
  /\ UNCHANGED <<recRest, uaudio, uframes, udone, sessVars, uttFrame>>

\* responses the callback threads have asked for
Created ==
  Cardinality({i \in 1..Len(outbox) : outbox[i][1] = "response.create"})

\* the response to an utterance completes: ResponseDoneEventHandler.handle,
\* lines 39-48
UttResponseDone ==
  /\ udone < Created
  /\ udone' = udone + 1
  /\ state' = Patch(DoneReset)
  /\ UNCHANGED <<current_event_id, outbox, sessRest>>
  /\ UNCHANGED <<recVars, upc, uaudio, uframes, uttFrame>>

\* a recorder with short durations, in a session whose connect() has returned
InitUtterance ==
  /\ \E sil \in ShortDurations, minsp \in ShortDurations :
       RecInit(sil, minsp, 128)
  /\ scn = <<0, 0, 0, 0>>
  /\ kwargs = NoKwargs
  /\ PlayerInit
  /\ SessInitAt(TRUE)

NextUtterance ==
  \/ UttFrame
  \/ UttResponseDone
  \/ \E k \in Utterances :
       \/ UttGuard(k)
       \/ UttAudio(k)
       \/ UttAppend(k)
       \/ UttCommit(k)
       \/ UttCreate(k)
       \/ UttClear(k)

\* the recorder fed by the device while its callbacks process the utterances
SpecUtterance == InitUtterance /\ [][NextUtterance]_vars

(* force_restart, stop and _callback with the lock and the stream's stop   *)
(* as separate steps; OutputStream.stop() returns when no callback of the  *)
(* stream is still running                                                 *)

\* what these steps leave alone
stopFrame == <<silVars, refused, cbVars, sendVars, createVars, closeVars,
               evVars, uttVars>>

\* the stream's stop() can return: no callback of it is in progress
StopReturns(sg) == sg \notin inCallback

\* force_restart, lines 41-43: the lock is taken, the engine marked stopped
ForceRestartLock(t) ==
  /\ tpc[t] = "fr_a"
  /\ stream_lock = "free"
  /\ stream_lock' = t
  /\ is_playing' = FALSE
  /\ tpc' = [tpc EXCEPT ![t] = "fr_stop"]
  /\ UNCHANGED <<audio_queue, audio_buffer, silence_output, thread_id,
                 current_thread_id, playback_thread, stream, streamsOpen,
                 wpc, wheld, tret, targ, countVars, staleWrite, played,
                 inCallback>>

\* force_restart, lines 46-59, the lock held: stream.stop() and close(), then
\* the queue and the buffer are emptied
ForceRestartStop(t) ==
  /\ tpc[t] = "fr_stop"
  /\ stream_lock = t
  /\ IF StreamActive
     THEN /\ StopReturns(stream)
          /\ streamsOpen' = streamsOpen \ {stream}
          /\ stream' = 0
     ELSE UNCHANGED <<streamsOpen, stream>>
  /\ audio_queue' = <<>>
  /\ audio_buffer' = <<>>
  /\ tpc' = [tpc EXCEPT ![t] = "fr_b"]
  /\ UNCHANGED <<is_playing, silence_output, thread_id, current_thread_id,
                 playback_thread, stream_lock, wpc, wheld, tret, targ,
                 countVars, staleWrite, played, inCallback>>

\* stop(), line 101: the lock is taken
StopLock(t) ==
  /\ tpc[t] = "st_2"
  /\ stream_lock = "free"
  /\ stream_lock' = t
  /\ tpc' = [tpc EXCEPT ![t] = "st_stop"]
  /\ UNCHANGED <<audio_queue, audio_buffer, is_playing, silence_output,
                 thread_id, current_thread_id, playback_thread, stream,
                 streamsOpen, wpc, wheld, tret, targ, countVars, staleWrite,
                 played, inCallback>>

\* stop(), lines 102-109, the lock held: stream.stop() and close(); the lock
\* is released
StopStream(t) ==
  /\ tpc[t] = "st_stop"
  /\ stream_lock = t
  /\ IF StreamActive
     THEN /\ StopReturns(stream)
          /\ streamsOpen' = streamsOpen \ {stream}
          /\ stream' = 0
     ELSE UNCHANGED <<streamsOpen, stream>>
  /\ stream_lock' = "free"
  /\ tpc' = [tpc EXCEPT ![t] = "st_3"]
  /\ UNCHANGED <<audio_queue, audio_buffer, is_playing, silence_output,
                 thread_id, current_thread_id, playback_thread, wpc, wheld,
                 tret, targ, countVars, staleWrite, played, inCallback>>

\* _callback, lines 195-205: the device invokes the callback of an open
\* stream, which goes on to the lock unless the engine is silenced
CallbackEnter(sg) ==
  /\ sg \in streamsOpen
  /\ sg \notin inCallback
  /\ ~silence_output
  /\ inCallback' = inCallback \cup {sg}
  /\ UNCHANGED playerVars

\* _callback, lines 205-227: the lock is taken, the block filled, the
\* callback returns
CallbackBody(sg) ==
  /\ sg \in inCallback
  /\ DeviceCallback(sg)
  /\ inCallback' = inCallback \ {sg}

\* the worker's statements; its finally block stops a stream once the
\* stream's callback has returned
StopWorkerRun(g) ==
  /\ \/ WorkerStart(g)
     \/ WorkerInitBuffer(g)
     \/ WorkerOpenStream(g)
     \/ WorkerLoop(g)
     \/ WorkerSize(g)
     \/ WorkerGet(g)
     \/ WorkerGetEmpty(g)
     \/ WorkerCheck(g)
     \/ WorkerAppend(g)
     \/ /\ WorkerFinally(g)
        /\ (~Stale(g) /\ StreamActive) => StopReturns(stream)
  /\ UNCHANGED inCallback

\* the engine calls of the users
StopCallerRun(t) ==
  \/ ForceRestartLock(t)
  \/ ForceRestartStop(t)
  \/ (ForceRestartSpawn(t) /\ UNCHANGED inCallback)
  \/ (Start(t) /\ UNCHANGED inCallback)
  \/ (StopMark(t) /\ UNCHANGED inCallback)
  \/ StopLock(t)
  \/ StopStream(t)
  \/ (StopJoin(t) /\ UNCHANGED inCallback)
  \/ AddAudioDecode(t)
  \/ (AddAudioPut(t) /\ UNCHANGED inCallback)

\* users that start, restart, feed and stop the engine, MaxStopCalls calls in
\* all
StopApiStep ==
  /\ spawnOps + stopCalls + nextChunk < MaxStopCalls
  /\ \E t \in ApiThreads :
       \/ ApiForceRestart(t)
       \/ ApiStart(t)
       \/ ApiStop(t)
       \/ ApiAddAudio(t)
  /\ UNCHANGED inCallback

NextStop ==
  /\ \/ StopApiStep
     \/ \E t \in ApiThreads : StopCallerRun(t)
     \/ \E g \in Gens : StopWorkerRun(g)
     \/ \E g \in Gens : CallbackEnter(g)
     \/ \E g \in Gens : CallbackBody(g)
  /\ UNCHANGED <<recVars, sessVars, stopFrame>>

\* the engine with its threads and the device scheduled: a caller inside an
\* engine call, a worker and a callback that can take a step take one in the
\* end
SpecStop ==
  /\ InitPlayer /\ [][NextStop]_vars
  /\ \A t \in ApiThreads :
       WF_vars(StopCallerRun(t) /\ UNCHANGED <<recVars, sessVars, stopFrame>>)
  /\ \A g \in Gens :
       /\ WF_vars(StopWorkerRun(g) /\ UNCHANGED <<recVars, sessVars, stopFrame>>)
       /\ WF_vars(CallbackBody(g) /\ UNCHANGED <<recVars, sessVars, stopFrame>>)

NextSilence ==
  \/ (SilenceApiStep /\ UNCHANGED <<recVars, sessVars>>)
  \/ (SilenceCallerStep /\ UNCHANGED <<recVars, sessVars>>)
  \/ (WorkerStep /\ UNCHANGED <<recVars, sessVars>>)
  \/ (SilenceStep /\ UNCHANGED <<recVars, sessVars>>)

\* the buffers a run of device callbacks starts from
BufferInputs ==
  UNION {[1..n -> 1..MaxChunks] : n \in 0..MaxBuffered}

\* an engine whose worker has opened its stream and filled the buffer, the
\* silence flag set or not, the thread that resets it still asleep
InitCallback ==
  /\ RecInit(DefaultSilenceMs, DefaultMinSpeechMs, DefaultPreBufferMs)
  /\ scn = <<0, 0, 0, 0>>
  /\ kwargs = NoKwargs
  /\ SessInit
  /\ audio_queue = <<>>
  /\ audio_buffer \in BufferInputs
  /\ is_playing = TRUE
  /\ silence_output \in BOOLEAN
  /\ thread_id = 1
  /\ current_thread_id = 1
  /\ playback_thread = 1
  /\ stream = 1
  /\ stream_lock = "free"
  /\ streamsOpen = {1}
  /\ wpc = [g \in Gens |-> IF g = 1 THEN "w_loop" ELSE "none"]
  /\ wheld = [g \in Gens |-> <<>>]
  /\ tpc = [t \in Threads |-> "idle"]
  /\ tret = [t \in Threads |-> "idle"]
  /\ targ = [t \in Threads |-> <<>>]
  /\ nextChunk = 0
  /\ submitInfo = [c \in 1..MaxChunks |-> 0]
  /\ restartsBegun = 0
  /\ restartsReturned = 0
  /\ spawnOps = 1
  /\ stopCalls = 0
  /\ joinTimedOut = FALSE
  /\ staleWrite = FALSE
  /\ played = {}
  /\ resetPending = (IF silence_output THEN 1 ELSE 0)
  /\ silenceCalls = resetPending
  /\ refused = {}
  /\ outdata = <<>>
  /\ blocks = 0
  /\ heard = <<>>
  /\ fed = audio_buffer
  /\ sreg = [t \in Senders |-> 0]
  /\ sendCalls = 0
  /\ createCalls = 0
  /\ is_listening = FALSE
  /\ buffer_event = FALSE
  /\ UttInit
  /\ inCallback = {}

NextCallback ==
  \/ (\E sg \in Gens : CallbackBlock(sg)) /\ UNCHANGED <<recVars, sessVars>>
  \/ (ResetFlag /\ UNCHANGED <<recVars, sessVars, refused, cbVars, sendVars,
                              createVars, closeVars, evVars,
                 uttVars, devVars>>)

\* the device callback applied to the buffers an engine can hold
SpecCallback == InitCallback /\ [][NextCallback]_vars

\* the playback engine restarted, fed and silenced by concurrent callers
SpecSilence == InitPlayer /\ [][NextSilence]_vars

\* a session: the client as constructed, about to connect
InitSession == InitPlayer

\* a session in which the user starts to speak while responses stream: the
\* socket thread, the barge-in coordinator, the workers and the device
BargeStep ==
  \/ /\ \/ Connect
        \/ OnOpen
        \/ ConnectStart
        \/ RecvResponseCreated
        \/ RecvAudioDelta
        \/ DeltaPatchFirst
        \/ DeltaPatchSpeaking
        \/ DeltaAddAudio
        \/ DoneSend
        \/ SpeechDetected
        \/ BargeBegin
        \/ BargeCancel
        \/ BargeStop
        \/ BargeStart
        \/ BargeReturn
     /\ UNCHANGED textVars
  \/ RecvResponseDone

NextBarge ==
  \/ (BargeStep /\ UNCHANGED <<recVars, auxVars>>)
  \/ (CallerStep /\ UNCHANGED <<recVars, sessVars>>)
  \/ (WorkerStep /\ UNCHANGED <<recVars, sessVars>>)

SpecBarge == InitSession /\ [][NextBarge]_vars

\* the session without the steps of the workers and of the device, which
\* neither read nor write the session and never keep the lock across steps
NextDialog ==
  \/ (SessionStep /\ UNCHANGED <<recVars, auxVars>>)
  \/ (CallerStep /\ UNCHANGED <<recVars, sessVars>>)

SpecDialog == InitSession /\ [][NextDialog]_vars

\* the session from connect() to the end of disconnect(): the calling thread
\* and the socket thread; the callbacks of the recorder take no part in
\* run_conversation leaving its loop and never hold the stream lock across
\* steps
CloseStep ==
  \/ StartListening
  \/ LeaveLoop
  \/ DisconnectClose
  \/ DisconnectStop
  \/ DisconnectRecorder

NextClose ==
  \/ (((LinkStep /\ UNCHANGED textVars) \/ RecvResponseDone)
        /\ UNCHANGED <<recVars, auxVars>>)
  \/ (CallerStep /\ UNCHANGED <<recVars, sessVars>>)
  \/ CloseStep

\* what the threads do by themselves, once scheduled: every step but the
\* arrival of an event and the loss of the connection
ThreadStep ==
  \/ ((ConnectStart \/ OnClose \/ DeltaPatchFirst \/ DeltaPatchSpeaking
        \/ DeltaAddAudio \/ DoneSend)
        /\ UNCHANGED textVars /\ UNCHANGED <<recVars, auxVars>>)
  \/ (CallerStep /\ UNCHANGED <<recVars, sessVars>>)
  \/ CloseStep

\* every thread that can take a step is scheduled in the end
SpecClose == InitSession /\ [][NextClose]_vars /\ WF_vars(ThreadStep)

\* the steps of connect() and of the connection
ConnectStep ==
  \/ Connect
  \/ OnOpen
  \/ ConnectTimeout
  \/ ConnectStart
  \/ TransportDrop
  \/ OnClose

\* an application that calls create_response on a client whose keyword
\* arguments are any of KwargInputs
InitCreate ==
  /\ RecInit(DefaultSilenceMs, DefaultMinSpeechMs, DefaultPreBufferMs)
  /\ scn = <<0, 0, 0, 0>>
  /\ kwargs \in KwargInputs
  /\ PlayerInit
  /\ SessInit

\* what the steps of a create_response call leave alone
createFrame == <<recVars, silVars, refused, cbVars, sendVars, closeVars,
                evVars, uttVars, devVars>>

NextCreate ==
  \/ (ConnectStep /\ UNCHANGED <<recVars, textVars, auxVars>>)
  \/ (CallerStep /\ UNCHANGED <<recVars, sessVars>>)
  \/ (RecvResponseCreated /\ UNCHANGED <<recVars, textVars, auxVars>>)
  \/ (CreateCall /\ UNCHANGED createFrame)
  \/ (MainCreateSend /\ UNCHANGED createFrame)
  \/ (MainCreatePatch /\ UNCHANGED createFrame)

SpecCreate == InitCreate /\ [][NextCreate]_vars

NextSend ==
  \/ (ConnectStep /\ UNCHANGED <<recVars, textVars, auxVars>>)
  \/ (CallerStep /\ UNCHANGED <<recVars, sessVars>>)
  \/ (SendStep /\ UNCHANGED recVars)

\* a connected client whose three sending threads call send_event
SpecSend == InitSession /\ [][NextSend]_vars

InitRec == InitRecorder \/ InitScenario

NextRec == (CaptureFrame \/ ScenarioFrame) /\ UNCHANGED auxVars

\* the recorder alone, driven by the capture thread
SpecRecorder == InitRec /\ [][NextRec]_vars

(***************************************************************************)
(* Recorder claims                                                         *)
(***************************************************************************)
RecIdle == ~speech_detected /\ ~is_recording /\ speech_frames = 0

\* this step's frame completes a run of more than silence_threshold
\* at-or-below-threshold frames that follows a segment still open
SegmentCloses == speech_detected /\ silentRun' > silence_threshold

C1_Step ==
  /\ (SegmentCloses /\ speech_frames >= min_speech_frames)
        => (finishedCalls' = finishedCalls + 1 /\ RecIdle')
  /\ finishedCalls' # finishedCalls
        => (finishedCalls' = finishedCalls + 1 /\ SegmentCloses
            /\ speech_frames >= min_speech_frames)

C1_ScenarioA ==
  scn = <<3, 5, 40, 25>>
    => /\ finishedCalls = 1
       /\ RecIdle
       /\ Len(recorded_frames) >= pre_buffer_size + 40

C2_NoSpeechNoUtterance ==
  ~anyLoud => /\ ~speech_detected /\ ~is_recording
              /\ recorded_frames = <<>>
              /\ speech_frames = 0
              /\ detectedCalls = 0 /\ finishedCalls = 0

C2_Witness == ~anyLoud /\ fedEqual /\ nCaptured >= 4 /\ scn[1] = 0

C3_Discarded ==
  /\ recorded_frames' = <<>> /\ ~is_recording'
  /\ finishedCalls' = finishedCalls
  /\ ~speech_detected' /\ speech_frames' = 0

\* C3 as claimed: a segment that closes with fewer than min_speech_frames
\* above-threshold frames is discarded without a callback and leaves the Idle
\* state of before the segment, silence counter 0 included.
C3_Original ==
  [][(SegmentCloses /\ speech_frames < min_speech_frames)
       => (C3_Discarded /\ silence_frames' = 0)]_vars

\* C3 as amended: a segment that closes with fewer than min_speech_frames
\* above-threshold frames is discarded (recorded frames emptied, is_recording
\* false), starts no recording-finished callback and leaves speech_detected
\* false and the speech frame count 0; the silence counter is not reset, it
\* stays at silence_threshold + 1 until the next above-threshold frame.
C3_TooShortDiscarded ==
  [][(SegmentCloses /\ speech_frames < min_speech_frames)
       => (C3_Discarded /\ silence_frames' = silence_threshold + 1)]_vars

C3_Witness ==
  /\ lastOutcome = "discarded" /\ finishedCalls = 0 /\ detectedCalls = 1
  /\ silence_frames = silence_threshold + 1

\* C4 as claimed: when the recording-finished callback is started the
\* utterance is, in capture order and without duplicate or gap, at most
\* pre_buffer_size frames captured just before speech-start followed by every
\* frame from the one that triggered speech-start through the one on which
\* speech-end is detected.
C4_Original ==
  lastOutcome = "finished"
    => \E k \in 0..pre_buffer_size :
         /\ speech_start_time - k >= 1
         /\ recorded_frames = Range(speech_start_time - k, nCaptured)

(***************************************************************************)
(* Playback engine claims                                                  *)
(***************************************************************************)

\* C5 as claimed: a sample delivered to the device after a force_restart()
\* call has returned was not submitted before that call was made, so every
\* delivered sample has seen no more restarts return than had been called
\* when it was submitted.
C5_Original == \A p \in played : p[2] <= submitInfo[p[1]]

\* C6 as claimed: no worker whose generation differs from the current one
\* resets the shared buffer or appends to it.
C6_Original == ~staleWrite

\* force_restart() is the only call that has been made to start or stop
\* workers, it has been made, and every such call has returned
OnlyRestartsAllReturned ==
  /\ restartsReturned >= 1
  /\ restartsBegun = restartsReturned
  /\ spawnOps = restartsBegun
  /\ stopCalls = 0

LiveWorkers == {g \in Gens : Alive(g)}

\* C7 as claimed: once all of N concurrent force_restart() calls have
\* returned, exactly one worker is alive, it has the current generation, which
\* is the highest issued, and every worker of an earlier generation has exited.
C7_Original ==
  OnlyRestartsAllReturned
    => /\ LiveWorkers = {current_thread_id}
       /\ current_thread_id = thread_id

\* C7 as amended: once all of N concurrent force_restart() calls have
\* returned, the current generation is the highest issued, N, its worker is
\* alive and is the only live worker of the current generation; a worker of
\* an earlier generation may still be alive, and any that is has a generation
\* below the current one.
C7_OneCurrentWorker ==
  OnlyRestartsAllReturned
    => /\ current_thread_id = thread_id
       /\ thread_id = restartsReturned
       /\ playback_thread = current_thread_id
       /\ current_thread_id \in LiveWorkers
       /\ \A g \in LiveWorkers : g <= current_thread_id

C7_Witness ==
  /\ OnlyRestartsAllReturned
  /\ restartsReturned = 2
  /\ LiveWorkers = {1, 2}
  /\ wpc[1] = "w_append"

(***************************************************************************)
(* Session claims                                                          *)
(***************************************************************************)

\* the latest barge-in that acted has returned, and its snapshot named a
\* response
BargeReturned ==
  /\ tpc["barge"] = "idle"
  /\ barge.returned >= 1
  /\ barge.rid # 0

\* the response.cancel events transmitted since that barge-in began
CancelsSent ==
  {i \in (barge.mark + 1)..Len(outbox) : outbox[i][1] = "response.cancel"}

\* C8 as claimed: a barge-in coordinator handed assistant_speaking = TRUE and
\* current_response_id = r transmits exactly one response.cancel, which
\* carries r, and assistant_speaking is FALSE when it returns.
C8_Original ==
  BargeReturned
    => /\ Cardinality(CancelsSent) = 1
       /\ \A i \in CancelsSent : outbox[i][2] = barge.rid
       /\ ~barge.speakingAtReturn

\* C8 as amended: a barge-in coordinator handed assistant_speaking = TRUE and
\* current_response_id = r transmits at most one response.cancel: exactly one,
\* carrying r, when the client is connected and the socket accepts the send,
\* and none when the client is not connected or the send fails; in every case
\* assistant_speaking is FALSE when the coordinator returns.
C8_CancelWhenSendAccepted ==
  BargeReturned
    => /\ Cardinality(CancelsSent) = (IF barge.accepted THEN 1 ELSE 0)
       /\ \A i \in CancelsSent : outbox[i][2] = barge.rid
       /\ ~barge.speakingAtReturn

C8_Witness ==
  /\ BargeReturned
  /\ barge.accepted
  /\ Cardinality(CancelsSent) = 1
  /\ ~state.assistant_speaking

\* C9 as claimed: no chunk the engine held, queued or buffered, when a
\* barge-in coordinator began with assistant_speaking = TRUE is delivered to
\* the device after that coordinator has returned.
C9_Original == \A p \in played : ~p[3]

\* C10 as claimed: of the audio deltas of one response exactly one, the
\* first, calls force_restart, whatever the interleaving with the thread
\* that creates responses.
C10_Original ==
  \A r \in Responses : deltasFor[r] >= 1 => restartsFor[r] = 1

(***************************************************************************)
(* Response-done, transcript and its files                                 *)
(***************************************************************************)

\* the socket thread has applied the reset of the response-done handler
DonePatched == tpc["recv"] = "rx_idle" /\ tpc'["recv"] = "rd_send"

\* the response-done handler returns
DoneReturned == tpc["recv"] = "rd_send" /\ tpc'["recv"] = "rx_idle"

\* the session.update events transmitted so far
UpdatesSent(box) ==
  Cardinality({i \in 1..Len(box) : box[i][1] = "session.update"})

\* C11 as stated: handling response-done leaves the state equal to its
\* initial value whatever it was before, and transmits exactly one
\* session.update event
C11_Original ==
  [][/\ DonePatched => state' = InitialState
     /\ DoneReturned => /\ UpdatesSent(outbox') = UpdatesSent(outbox) + 1
                         /\ Len(outbox') = Len(outbox) + 1]_vars

\* C11 (amended): handling response-done leaves the state equal to its
\* initial value whatever it was before; it transmits exactly one
\* session.update event and nothing else when the client is connected and
\* the socket accepts the send, and transmits nothing otherwise
C11_ResetAndUpdateWhenAccepted ==
  [][/\ DonePatched => state' = InitialState
     /\ DoneReturned =>
          LET n == IF connected /\ transportUp THEN 1 ELSE 0
          IN /\ UpdatesSent(outbox') = UpdatesSent(outbox) + n
             /\ Len(outbox') = Len(outbox) + n]_vars

\* a response with a transcript and audio was ended: its text was written,
\* the state is the initial one again and the session.update went out
C11_Witness ==
  /\ tpc["recv"] = "rx_idle"
  /\ finalFile[1] # <<>>
  /\ deltasFor[1] >= 1
  /\ state = InitialState
  /\ UpdatesSent(outbox) = 1

\* the strings of a list, one after the other
RECURSIVE Concat(_)
Concat(ds) == IF ds = <<>> THEN <<>> ELSE Head(ds) \o Concat(Tail(ds))

\* the responses whose response-done was handled
Ended == {r \in Responses : r <= srvStarted /\ r # srvResp}

\* C12: the text held for the response in progress is the concatenation, in
\* arrival order, of the transcript deltas received for it, up to and
\* including the moment response-done is handled, and the final file
\* written by response-done holds exactly that concatenation
C12_Original ==
  /\ srvResp # 0 => state.current_response_text = Concat(seen[srvResp])
  /\ \A r \in Ended : finalFile[r] = Concat(seen[r])

\* two different deltas arrived for response 1 and its final file holds
\* them in arrival order
C12_Witness ==
  /\ 1 \in Ended
  /\ seen[1] = << <<"a">>, <<"b">> >>
  /\ finalFile[1] = <<"a", "b">>

\* C13: for every response id at most one final write is performed, and
\* once it has happened no partial file of that id exists, whatever
\* events follow
C13_Original ==
  \A r \in Responses :
    /\ finalWrites[r] <= 1
    /\ finalWrites[r] = 1 => partialFile[r] = <<>>

\* response 1 got its final file after a partial one had been written, and
\* the next response has begun
C13_Witness ==
  /\ finalWrites[1] = 1
  /\ Len(seen[1]) >= 1
  /\ partialFile[1] = <<>>
  /\ srvResp = 2

(***************************************************************************)
(* Silencing and the device callback                                       *)
(***************************************************************************)

\* C14: an add_audio that finds the silence flag set enqueues nothing and
\* leaves the playback queue and the playback buffer as they were, and no
\* chunk so submitted is held by the engine or played, then or later
C14_Original ==
  [][/\ refused' # refused =>
          /\ audio_queue' = audio_queue
          /\ audio_buffer' = audio_buffer
     /\ refused' \cap Held' = {}
     /\ \A p \in played' : p[1] \notin refused']_vars

\* a chunk was played, the engine was silenced, a chunk submitted meanwhile
\* was refused, and the flag has been reset since
C14_Witness ==
  /\ refused # {}
  /\ played # {}
  /\ silenceCalls = 1 /\ resetPending = 0
  /\ ~silence_output

\* C15: every callback hands the device a whole block of BlockSize samples:
\* the first BlockSize samples of a buffer that holds as many, removed from
\* its front; all the samples of a shorter buffer followed by zeros, the
\* buffer left empty; only zeros, the buffer left as it was, when the buffer
\* is empty or the silence flag is set.  The samples handed over so far,
\* followed by those still buffered, are the samples the buffer was given:
\* in order, each at most once
C15_Original ==
  [][blocks' = blocks + 1 =>
       /\ Len(outdata') = BlockSize
       /\ IF silence_output \/ audio_buffer = <<>>
          THEN /\ outdata' = Zeros(BlockSize)
               /\ audio_buffer' = audio_buffer
          ELSE IF Len(audio_buffer) >= BlockSize
               THEN /\ outdata' = SubSeq(audio_buffer, 1, BlockSize)
                    /\ audio_buffer' =
                         SubSeq(audio_buffer, BlockSize + 1, Len(audio_buffer))
               ELSE /\ outdata' =
                         audio_buffer \o Zeros(BlockSize - Len(audio_buffer))
                    /\ audio_buffer' = <<>>
       /\ heard' \o audio_buffer' = fed']_vars

\* a buffer longer than a block was played out: a full block, then a block
\* padded with zeros, then a block of zeros
C15_Witness ==
  /\ blocks = 3
  /\ Len(fed) > BlockSize
  /\ heard = fed
  /\ audio_buffer = <<>>
  /\ outdata = Zeros(BlockSize)

(***************************************************************************)
(* Event ids                                                               *)
(***************************************************************************)

\* C16 as stated: the k-th event transmitted carries the id evt_k, also when
\* the socket thread, the barge-in thread and the utterance-processing
\* thread call send_event concurrently
C16_Original ==
  \A k \in 1..Len(outbox) : outbox[k][3] = EventId(k)

(***************************************************************************)
(* Events that are only logged                                             *)
(***************************************************************************)

\* C17: the dispatch of an event whose handler only logs, the default
\* handler of unknown types included, changes no field of the state,
\* transmits nothing, leaves recorder and player alone and leaves the socket
\* thread ready for the next event on a connection that is as it was
C17_Original ==
  [][logged' = logged + 1 =>
       /\ state' = state
       /\ outbox' = outbox /\ current_event_id' = current_event_id
       /\ UNCHANGED <<recVars, seg, enginePart, submitVars, callCounts>>
       /\ connected' = connected /\ transportUp' = transportUp
       /\ tpc'["recv"] = "rx_idle"]_vars

\* a session that handled a log-only event and a whole response with audio
C17_Witness ==
  /\ logged >= 1
  /\ 1 \in Ended
  /\ deltasFor[1] >= 1

(***************************************************************************)
(* connect()                                                               *)
(***************************************************************************)

\* start() calls made: the calls that spawn a worker less the force_restart
\* calls
StartCalls == spawnOps - restartsBegun

\* C18: connect() goes past its wait only when the connection was seen
\* open; when it fails with the connection timeout it has not started the
\* playback engine, which is as constructed unless an audio delta handled
\* during the wait restarted it, and no recorder callback has been
\* registered, so none ever runs
C18_Original ==
  /\ tpc["main"] \notin {"idle", "m_wait", "m_failed"} =>
        tpc["recv"] \notin {"idle", "rx_open"}
  /\ tpc["main"] = "m_failed" =>
        /\ StartCalls = 0
        /\ srvStarted = 0 =>
              /\ playback_thread = 0 /\ ~is_playing
              /\ \A g \in Gens : wpc[g] = "none"
        /\ segments = 0
        /\ tpc["barge"] = "idle" /\ tpc["proc"] = "idle"

\* connect() failed with the connection timeout
C18_Witness == tpc["main"] = "m_failed"

(***************************************************************************)
(* create_response                                                         *)
(***************************************************************************)

\* the application's create_response transmits or fails to
MainSends == tpc["main"] = "cr_send" /\ tpc'["main"] # "cr_send"

\* the application's create_response returns
CreateReturns == tpc["main"] \in {"cr_send", "cr_flags"} /\ tpc'["main"] = "m_run"

\* the caller supplied field k
Given(kw, k) == k \in DOMAIN kw /\ kw[k] # "None"

\* the documented defaults
DefaultOf(k) ==
  CASE k = "modalities" -> "text,audio"
    [] k = "voice" -> "sage"
    [] k = "temperature" -> "0.8"
    [] k = "max_output_tokens" -> "1024"
    [] k = "instructions" -> default_instructions

Defaulted == {"modalities", "voice", "temperature", "max_output_tokens",
              "instructions"}

\* the state with the two flags of a created response set
Flagged(st) ==
  [st EXCEPT !.expecting_audio = TRUE, !.first_audio_chunk = TRUE]

\* C19 as stated: create_response transmits exactly one response.create
\* event whose configuration has every field the caller supplied and the
\* default for each of modalities, voice, temperature, max tokens and
\* instructions the caller did not supply; when it returns, expecting_audio
\* and first_audio_chunk are true and the other fields are as they were
C19_Original ==
  [][/\ MainSends =>
          /\ Len(outbox') = Len(outbox) + 1
          /\ LET e == outbox'[Len(outbox')]
             IN /\ e[1] = "response.create"
                /\ \A k \in Fields :
                     Given(kwargs, k) => k \in DOMAIN e[2] /\ e[2][k] = kwargs[k]
                /\ \A k \in Defaulted :
                     ~Given(kwargs, k) => e[2][k] = DefaultOf(k)
     /\ CreateReturns => state' = Flagged(state)]_vars

(***************************************************************************)
(* Barge-in without a speaking assistant                                   *)
(***************************************************************************)

\* the barge-in coordinator is handed a state whose assistant_speaking is
\* false and runs
BargeIdleRun ==
  /\ tpc["barge"] = "bi_begin" /\ tpc'["barge"] # "bi_begin"
  /\ ~state.assistant_speaking

\* C20 as claimed: a speech-detected signal handled while assistant_speaking
\* is false makes the barge-in coordinator return at once: no outbound event
\* is transmitted or numbered, the playback engine gets no stop, start or
\* restart call and no field of it changes, and the session state is as it
\* was.
C20_Original ==
  [][BargeIdleRun =>
       /\ tpc'["barge"] = "idle"
       /\ UNCHANGED <<outbox, current_event_id>>
       /\ UNCHANGED <<callCounts, enginePart, tret, submitVars>>
       /\ UNCHANGED state]_vars

\* a speech onset was handled and no coordinator has ever acted
C20_Witness ==
  /\ segments >= 1
  /\ tpc["barge"] = "idle"
  /\ barge.returned = 0
  /\ ~state.assistant_speaking

(***************************************************************************)
(* Barge-in whose cancel could not be sent                                 *)
(***************************************************************************)

\* the latest barge-in that acted has returned, and the send of its cancel
\* raised
BargeFailedReturned ==
  /\ tpc["barge"] = "idle"
  /\ barge.returned >= 1
  /\ barge.failed

\* C21 as claimed: a barge-in coordinator whose response.cancel send raised
\* does not pass the error on: it goes on to call player.stop() and
\* player.start(), and assistant_speaking is false when it returns; nothing
\* was transmitted for the failed send.
C21_Original ==
  BargeFailedReturned
    => /\ barge.stopped /\ barge.started
       /\ ~barge.speakingAtReturn
       /\ CancelsSent = {}

\* a coordinator has returned whose cancel send raised on the closed socket
C21_Witness ==
  /\ BargeFailedReturned
  /\ barge.rid # 0 /\ connected /\ ~transportUp
  /\ stopCalls >= 1

(***************************************************************************)
(* Barge-in and the processing of the same segment                         *)
(***************************************************************************)

\* the recording-finished callback of the segment in progress is launched
ProcessingBegins == tpc["proc"] = "idle" /\ tpc'["proc"] = "pr_begin"

\* C22 as claimed: when the recording-finished processing of a segment
\* begins, the barge-in handling launched by the speech-detected signal of
\* that segment has completed, so the two never run at the same time on the
\* playback engine and the session state.
C22_Original ==
  [][ProcessingBegins => tpc["barge"] = "idle"]_vars

(***************************************************************************)
(* The speech-detected callback                                            *)
(***************************************************************************)

\* audio_callback handles a frame
FrameHandled == nCaptured' = nCaptured + 1

\* the frame handled is above the threshold and the recorder was idle
OnsetFrame == ~speech_detected /\ silentRun' = 0

\* C23 as claimed: the frame on which the recorder goes from idle to armed
\* is the first frame above the threshold since it was idle; that frame
\* starts the speech-detected callback once, and no other frame starts it:
\* not a later frame of the segment, and not the frame that ends the segment,
\* whether the segment is valid or discarded.
C23_Original ==
  [][FrameHandled =>
       /\ OnsetFrame <=> (~speech_detected /\ speech_detected')
       /\ detectedCalls' = detectedCalls + (IF OnsetFrame THEN 1 ELSE 0)]_vars

\* two segments have begun, one valid and one discarded as too short, and
\* the callback was started twice
C23_Witness ==
  /\ detectedCalls = 2
  /\ finishedCalls = 1
  /\ lastOutcome = "discarded"

(***************************************************************************)
(* force_restart on an engine without a generation                         *)
(***************************************************************************)

\* start() was never called: every call that can launch a worker so far was
\* a force_restart()
NeverStarted == spawnOps = restartsBegun

\* C24 as claimed, for the engine that was never started: force_restart()
\* on it is a no-op, so as long as start() was never called the engine has no
\* generation, no worker and no stream, and is not playing, however many
\* force_restart() calls were made.
C24_Original ==
  NeverStarted
    => /\ thread_id = 0 /\ current_thread_id = 0 /\ playback_thread = 0
       /\ \A g \in Gens : wpc[g] = "none"
       /\ streamsOpen = {} /\ stream = 0
       /\ ~is_playing

(***************************************************************************)
(* The end of the session                                                  *)
(***************************************************************************)

\* connect() has returned or is starting the player, and the socket is closed
SessionLost ==
  /\ ~transportUp
  /\ tpc["main"] \notin {"idle", "m_wait", "m_failed"}

\* disconnect() has returned: its player.stop() was called and returned, and
\* the recorder no longer listens
Disconnected ==
  /\ tpc["main"] = "m_done"
  /\ stopCalls >= 1
  /\ ~is_listening

StaleWorker(g) == Alive(g) /\ Stale(g)

\* how far a worker that is stale is from its exit: the statements it can
\* still execute, the loop test (w_loop) among them once
Rank(label) ==
  CASE label = "dead" -> 0
    [] label = "w_finally" -> 1
    [] label \in {"w_loop", "w_open"} -> 2
    [] label \in {"w_append", "w_init"} -> 3
    [] label \in {"w_check", "w_start"} -> 4
    [] label = "w_get" -> 5
    [] label = "w_size" -> 6

StreamTouched == stream' # stream \/ streamsOpen' # streamsOpen

\* the worker of generation g, which was running, takes a step
WorkerActs(g) == Alive(g) /\ wpc'[g] # wpc[g]

\* a caller executes the stream-closing block of force_restart() or of stop()
CallerCloses(t) == tpc[t] \in {"fr_a", "st_2"} /\ tpc'[t] # tpc[t]

\* C27 as claimed: a worker whose generation is not the current one never
\* creates, starts, stops or closes the output stream; whenever the stream is
\* touched it is by the worker of the current generation, by force_restart()
\* or by stop().
C27_Original ==
  [][StreamTouched =>
       /\ \A g \in Gens : WorkerActs(g) => ~Stale(g)
       /\ \/ \E g \in Gens : WorkerActs(g) /\ ~Stale(g)
          \/ \E t \in Threads : CallerCloses(t)]_vars

\* a stale worker has run to its exit, and the one stream open is that of
\* the current generation
C27_Witness ==
  /\ wpc[1] = "dead" /\ Stale(1)
  /\ current_thread_id # 0
  /\ streamsOpen = {current_thread_id}
  /\ stream = current_thread_id

(***************************************************************************)
(* The generation counter                                                  *)
(***************************************************************************)

\* a worker thread is created in this step, with generation g
Launched(g) == wpc[g] # "w_start" /\ wpc'[g] = "w_start"

\* thread t executes the locked block of force_restart() that creates the
\* worker, or the locked block of start()
RestartReturns(t) == tpc[t] = "fr_b" /\ tpc'[t] # "fr_b"

StartReturns(t) == tpc[t] = "sa_1" /\ tpc'[t] # "sa_1"

LoudFrame == silentRun' = 0

\* the recorder was armed and the frame handled ends the segment
SegmentEnds == speech_detected /\ ~speech_detected'

\* C29 as claimed: while the recorder is armed a frame above the threshold
\* sets silence_frames to 0 and a frame at or below it adds one, so the
\* counter is the number of consecutive frames at or below the threshold; the
\* segment ends on the frame that makes that number exceed silence_threshold
\* for the first time (the 16th at the defaults) and on no other frame, so a
\* pause of silence_threshold frames or fewer does not end it.
C29_Original ==
  /\ [](speech_detected
         => silence_frames = silentRun /\ silentRun <= silence_threshold)
  /\ [][FrameHandled /\ speech_detected =>
          /\ silence_frames' = (IF LoudFrame THEN 0 ELSE silence_frames + 1)
          /\ SegmentEnds <=> silentRun' > silence_threshold
          /\ SegmentEnds => silentRun' = silence_threshold + 1
          /\ SegmentEnds /\ scn[1] > 0 => silentRun' = 16]_vars

\* at the defaults a segment has just ended, valid, on the 16th frame of
\* silence in a row
C29_Witness ==
  /\ scn[1] > 0
  /\ lastOutcome = "finished"
  /\ silentRun = 16
  /\ ~speech_detected

\* a worker takes a chunk from the queue
ChunkTaken(g) == wpc[g] = "w_get" /\ wpc'[g] = "w_check"

\* a worker that read a full buffer calls buffer_event.wait(0.1)
WaitCalled(g) == wpc[g] = "w_size" /\ wpc'[g] = "w_loop"

\* the most the buffer holds: under the low-water mark, plus one chunk
BufferCap == LowWater - 1 + ChunkSamples

\* C30: a worker takes a chunk only while the buffer is below the low-water
\* mark; a worker that finds the buffer full calls the wait with the signal
\* clear, so that the wait blocks until the buffer has drained; and the buffer
\* never holds more than the low-water mark plus one chunk
C30_Original ==
  /\ [][\A g \in Gens :
          /\ ChunkTaken(g) => Len(audio_buffer) < LowWater
          /\ WaitCalled(g) => ~buffer_event]_vars
  /\ [](Len(audio_buffer) <= BufferCap)

\* the frames the ring is to hold after n captures: the latest ones, in order
LatestFrames(n, size) == Range(IF n > size THEN n - size + 1 ELSE 1, n)

\* C31: the pre-roll ring never holds more than pre_buffer_size frames, which
\* is 7 at the defaults, and it always holds the most recent frames in
\* capture order, the oldest one being dropped when a frame meets a full ring
C31_Original ==
  /\ FramesFor(DefaultPreBufferMs) = 7
  /\ Len(pre_buffer) <= pre_buffer_size
  /\ pre_buffer = LatestFrames(nCaptured, pre_buffer_size)

\* a frame has arrived at a full ring
C31_Witness ==
  /\ pre_buffer_size = 7
  /\ nCaptured > pre_buffer_size + 1
  /\ Len(pre_buffer) = pre_buffer_size

\* the frame being handled ends a segment that is long enough
ValidSegmentEnds ==
  /\ speech_detected /\ ~speech_detected'
  /\ ValidSpeech(speech_frames)

\* what the recorder holds of a segment when it ends: the pre-roll at the
\* onset, then the frames from the onset to the frame before the last
SegmentFrames ==
  LatestFrames(speech_start_time, pre_buffer_size)
    \o Range(speech_start_time, nCaptured)

\* C32: a segment that meets the validity conditions has its
\* recording-finished callback started, with the frames of that segment in
\* the recording, also when it began while the utterance before it was still
\* being processed
C32_Original ==
  [][ValidSegmentEnds =>
       /\ finishedCalls' = finishedCalls + 1
       /\ recorded_frames' = SegmentFrames]_vars

\* C33: the audio a recording-finished callback encodes and sends is made of
\* the frames of the utterance that started it, and of no frame of a later
\* segment
C33_Original ==
  \A k \in Utterances :
    uaudio[k] # NoAudio => uaudio[k] = get_base64_audio(uframes[k])

\* barge-in handling returns without acting
BargeSkips == tpc["barge"] = "bi_begin" /\ tpc'["barge"] = "idle"

\* C34: a speech onset that finds assistant audio queued or buffered in the
\* engine is followed by a barge-in that acts: the handling of such an onset
\* never returns without acting, also after response-done
C34_Original == [][BargeSkips => ~barge.onsetHeld]_vars

\* the socket thread puts a chunk on the queue
RecvEnqueues ==
  /\ tpc["recv"] # tpc'["recv"]
  /\ Len(audio_queue') > Len(audio_queue)

\* the socket thread sets assistant_speaking
RecvSetsSpeaking ==
  /\ tpc["recv"] # tpc'["recv"]
  /\ ~state.assistant_speaking /\ state'.assistant_speaking

\* C35: an audio delta of a response that arrives after barge-in handling
\* cancelled that response is not enqueued for playback and does not set
\* assistant_speaking
C35_Original == [][barge.late => ~(RecvEnqueues \/ RecvSetsSpeaking)]_vars

\* the recording-finished callback returns at the processing_input guard
ProcSkips == tpc["proc"] = "pr_begin" /\ tpc'["proc"] = "idle"

\* C36: the utterance that finishes after the barge-in its onset started has
\* acted and returned is submitted: its recording-finished callback is not
\* turned away by the processing_input guard
C36_Original == [][barge.before => ~ProcSkips]_vars

\* worker g, no longer current, drops the chunk it took from the queue
StaleDiscards(g) ==
  /\ wpc[g] = "w_check" /\ wpc'[g] = "w_loop"
  /\ Stale(g) /\ wheld[g] # <<>>

\* chunk c was accepted after a force_restart() had returned, and no restart
\* and no stop() has been called since; the socket thread makes both calls,
\* one after the other
AcceptedSinceRestart(c) ==
  /\ submitInfo[c] >= 1
  /\ submitInfo[c] = restartsBegun
  /\ stopCalls = 0

\* C37: a chunk accepted by add_audio after force_restart() returned, and
\* before the next restart or stop, is not taken from the queue and dropped
\* by a stale worker of an earlier generation
C37_Original ==
  [][\A g \in Gens :
       StaleDiscards(g) => ~AcceptedSinceRestart(wheld[g][1])]_vars

\* thread t is inside force_restart() or stop()
InStopOrRestart(t) ==
  tpc[t] \in {"fr_a", "fr_stop", "fr_b", "st_1", "st_2", "st_stop", "st_3"}

\* C38: every force_restart() and every stop() returns, and every callback
\* the device has invoked completes
C38_Original ==
  /\ \A t \in ApiThreads : InStopOrRestart(t) ~> ~InStopOrRestart(t)
  /\ \A g \in Gens : (g \in inCallback) ~> (g \notin inCallback)

\* thread t runs start() after a stop() that has returned, nothing having
\* restarted the engine since
StartAfterStop(t) ==
  /\ tpc[t] = "sa_1"
  /\ tpc'[t] # "sa_1"
  /\ stopCalls >= 1
  /\ ~is_playing
  /\ \A u \in Threads : tpc[u] \notin {"st_1", "st_2", "st_stop", "st_3"}

\* C39: a start() that follows a stop() leaves the engine playing, with a
\* worker of a new generation just started as the current one
C39_Original ==
  [][\A t \in Threads :
       StartAfterStop(t) =>
         /\ is_playing'
         /\ current_thread_id' = thread_id + 1
         /\ playback_thread' = thread_id + 1
         /\ wpc'[thread_id + 1] = "w_start"]_vars

\* the places of the events of a type among the events sent
SentAt(type) == {i \in 1..Len(outbox) : outbox[i][1] = type}

\* the place of the latest event of a type, 0 when none was sent
LastSent(type) ==
  IF SentAt(type) = {} THEN 0
  ELSE CHOOSE i \in SentAt(type) : \A j \in SentAt(type) : j <= i

\* the utterance-processing thread clears the recorder
ProcClears == tpc["proc"] = "pr_clear" /\ tpc'["proc"] = "idle"

\* C40: when the recorder is cleared after an utterance, its append, its
\* commit and its response.create have been sent, once each and in that order
C40_Original ==
  [][ProcClears =>
       /\ Cardinality(SentAt("input_audio_buffer.append")) >= 1
       /\ Cardinality(SentAt("input_audio_buffer.commit"))
            = Cardinality(SentAt("input_audio_buffer.append"))
       /\ Cardinality(SentAt("response.create"))
            = Cardinality(SentAt("input_audio_buffer.append"))
       /\ LastSent("input_audio_buffer.append")
            < LastSent("input_audio_buffer.commit")
       /\ LastSent("input_audio_buffer.commit") < LastSent("response.create")]_vars

====
